---- MODULE Spec2Model ----
(***************************************************************************)
(* Forkful calculation engine: unit conversion, ingredient availability    *)
(* and recipe readiness against the pantry.                                *)
(*                                                                         *)
(* Numbers.  JavaScript numbers are modelled as exact rationals <<n, d>>   *)
(* in lowest terms with d > 0, so that a conversion such as 1 g -> kg is   *)
(* the value 1/1000 and not an integer.  Floating-point rounding error is  *)
(* not modelled.  The non-finite numbers are the pairs with d = 0: NaN is  *)
(* <<0, 0>>, Infinity <<1, 0>> and -Infinity <<-1, 0>>.  A missing value   *)
(* (null, or an absent optional field) is the empty tuple.                 *)
(***************************************************************************)
EXTENDS Integers, Sequences, FiniteSets, TLC

VARIABLES
    pantryItems,    \* usePantryStore: items
    recipes,        \* useRecipeStore: recipes
    called,         \* which engine function produced the latest result
    availability,   \* latest result of calculateIngredientAvailability
    readiness,      \* latest result of calculateRecipeReadiness
    readinessMap,   \* latest result of calculateRecipesReadiness
    now,            \* the wall clock read by new Date(), in milliseconds
    itemStatus,     \* latest result of calculateItemStatus
    conversion,     \* latest result of canConvert and convertUnit
    calorieResult,  \* latest result of calculateCalories
    similarity,     \* latest result of the similarity functions
    draft           \* the recipe being composed or edited on a recipe screen

vars == <<pantryItems, recipes, called, availability, readiness, readinessMap,
          now, itemStatus, conversion, calorieResult, similarity, draft>>

----------------------------------------------------------------------------
(* Bounds of the model                                                     *)

MaxPantry == 2        \* pantry items in the store
MaxIngredients == 3   \* ingredients of one recipe
MaxRecipes == 2       \* recipes of one batch
MaxBatchIngredients == 1  \* ingredients of one recipe of a batch
LongLen == 100        \* ingredients of a long recipe
MaxNames == 3         \* ingredient names of one list

----------------------------------------------------------------------------
(* Exact rational arithmetic standing for JavaScript number arithmetic     *)

Null == <<>>

Abs(n) == IF n < 0 THEN -n ELSE n

RECURSIVE GCD(_, _)
GCD(a, b) == IF b = 0 THEN a ELSE GCD(b, a % b)

NaN == <<0, 0>>

Infinity == <<1, 0>>

Norm(n, d) ==
    IF n = 0 /\ d = 0 THEN NaN
    ELSE LET g == GCD(Abs(n), Abs(d))
             s == IF d < 0 THEN -1 ELSE 1
         IN  <<(s * n) \div g, (s * d) \div g>>

IsFinite(x) == x[2] # 0

Rat(n) == <<n, 1>>

Zero == Rat(0)

RatAdd(x, y) ==
    LET g == GCD(x[2], y[2])
    IN  Norm(x[1] * (y[2] \div g) + y[1] * (x[2] \div g), (x[2] \div g) * y[2])

RatSub(x, y) == RatAdd(x, <<-y[1], y[2]>>)

RatMul(x, y) ==
    LET a == Norm(x[1], y[2])
        b == Norm(y[1], x[2])
    IN  Norm(a[1] * b[1], a[2] * b[2])

RatDiv(x, y) == RatMul(x, Norm(y[2], y[1]))

RatLeq(x, y) == x[1] * y[2] <= y[1] * x[2]

RatLess(x, y) == x[1] * y[2] < y[1] * x[2]

RatMax(x, y) == IF RatLeq(x, y) THEN y ELSE x

\* Math.round: the nearest integer, halves rounded towards +infinity.
MathRound(x) == (2 * x[1] + x[2]) \div (2 * x[2])

----------------------------------------------------------------------------
(* utils/unitConversion.ts                                                 *)

MASS_UNITS == {"g", "kg", "oz", "lb", "mg"}

VOLUME_UNITS == {"ml", "l", "cup", "Tbs", "tsp", "fl-oz"}

CUSTOM_UNITS ==
    {"slice", "piece", "serving", "portion", "loaf", "can", "bottle", "package"}

MASS_TO_GRAMS ==
    [u \in MASS_UNITS |->
        CASE u = "mg" -> Norm(1, 1000)
          [] u = "g"  -> Rat(1)
          [] u = "kg" -> Rat(1000)
          [] u = "oz" -> Norm(283495, 10000)
          [] u = "lb" -> Norm(453592, 1000)]

VOLUME_TO_ML ==
    [u \in VOLUME_UNITS |->
        CASE u = "ml"    -> Rat(1)
          [] u = "l"     -> Rat(1000)
          [] u = "tsp"   -> Norm(492892, 100000)
          [] u = "Tbs"   -> Norm(147868, 10000)
          [] u = "fl-oz" -> Norm(295735, 10000)
          [] u = "cup"   -> Norm(236588, 1000)]

getUnitCategory(unit) ==
    IF unit \in MASS_UNITS THEN "mass"
    ELSE IF unit \in VOLUME_UNITS THEN "volume"
    ELSE "custom"

\* Variant: the custom category is not excluded.
canConvert_SameCategory(fromUnit, toUnit) ==
    getUnitCategory(fromUnit) = getUnitCategory(toUnit)

canConvert(fromUnit, toUnit) ==
    LET fromCategory == getUnitCategory(fromUnit)
        toCategory == getUnitCategory(toUnit)
    IN  fromCategory = toCategory /\ fromCategory # "custom"

\* Variant: the two factors are swapped.
convertUnit_Inverted(value, fromUnit, toUnit) ==
    IF ~canConvert(fromUnit, toUnit) THEN Null
    ELSE IF getUnitCategory(fromUnit) = "mass"
         THEN RatDiv(RatMul(value, MASS_TO_GRAMS[toUnit]), MASS_TO_GRAMS[fromUnit])
         ELSE RatDiv(RatMul(value, VOLUME_TO_ML[toUnit]), VOLUME_TO_ML[fromUnit])

\* Variant: the result is rounded to two decimals.
convertUnit_Rounded(value, fromUnit, toUnit) ==
    IF ~canConvert(fromUnit, toUnit) THEN Null
    ELSE LET factors == IF getUnitCategory(fromUnit) = "mass"
                        THEN MASS_TO_GRAMS ELSE VOLUME_TO_ML
             exact == RatDiv(RatMul(value, factors[fromUnit]), factors[toUnit])
         IN  Norm(MathRound(RatMul(exact, Rat(100))), 100)

convertUnit(value, fromUnit, toUnit) ==
    IF ~canConvert(fromUnit, toUnit) THEN Null
    ELSE LET fromCategory == getUnitCategory(fromUnit)
         IN  IF fromCategory = "mass"
             THEN RatDiv(RatMul(value, MASS_TO_GRAMS[fromUnit]), MASS_TO_GRAMS[toUnit])
             ELSE IF fromCategory = "volume"
             THEN RatDiv(RatMul(value, VOLUME_TO_ML[fromUnit]), VOLUME_TO_ML[toUnit])
             ELSE Null

\* Variant: the base serving size is not divided out.
calculateCalories_PerUnit(baseCalories, baseServingSize, baseServingUnit, targetAmount, targetUnit) ==
    IF baseServingUnit = targetUnit
    THEN RatMul(baseCalories, targetAmount)
    ELSE LET convertedAmount == convertUnit(targetAmount, targetUnit, baseServingUnit)
         IN  IF convertedAmount = Null THEN Null
             ELSE RatMul(baseCalories, convertedAmount)

\* Variant: a failed conversion yields 0.
calculateCalories_ZeroOnFailure(baseCalories, baseServingSize, baseServingUnit, targetAmount, targetUnit) ==
    IF baseServingUnit = targetUnit
    THEN RatMul(RatDiv(baseCalories, baseServingSize), targetAmount)
    ELSE LET convertedAmount == convertUnit(targetAmount, targetUnit, baseServingUnit)
         IN  IF convertedAmount = Null THEN Zero
             ELSE RatMul(RatDiv(baseCalories, baseServingSize), convertedAmount)

calculateCalories(baseCalories, baseServingSize, baseServingUnit, targetAmount, targetUnit) ==
    IF baseServingUnit = targetUnit
    THEN RatMul(RatDiv(baseCalories, baseServingSize), targetAmount)
    ELSE LET convertedAmount == convertUnit(targetAmount, targetUnit, baseServingUnit)
         IN  IF convertedAmount = Null THEN Null
             ELSE RatMul(RatDiv(baseCalories, baseServingSize), convertedAmount)

----------------------------------------------------------------------------
(* utils/recipeReadiness.ts: calculateIngredientAvailability               *)

\* a || b on strings: the first operand unless it is empty or absent.
OrElse(a, b) == IF a # "" THEN a ELSE b

\* Variant: the filter forgets the status.
matchingItems_AnyStatus(ingredient, items) ==
    LET keep(item) == item.food.id = ingredient.food.id
    IN  SelectSeq(items, keep)

\* The pantry items of the ingredient's food that are not expired.
matchingItems(ingredient, items) ==
    LET keep(item) == item.food.id = ingredient.food.id /\ item.status # "expired"
    IN  SelectSeq(items, keep)

\* Variant: the early return reports nothing missing.
noMatchResult_NoShortage(ingredient) ==
    [ingredient   |-> ingredient,
     available    |-> Zero,
     needed       |-> ingredient.quantity,
     unit         |-> ingredient.servingUnit,
     isSufficient |-> FALSE,
     shortage     |-> Zero]

\* The result returned when no pantry item matches.
noMatchResult(ingredient) ==
    [ingredient   |-> ingredient,
     available    |-> Zero,
     needed       |-> ingredient.quantity,
     unit         |-> ingredient.servingUnit,
     isSufficient |-> FALSE,
     shortage     |-> ingredient.quantity]

\* The unit a pantry item's current size is read in.
itemUnitOf(item, ingredient) ==
    OrElse(item.currentSize.unit, OrElse(ingredient.food.servingUnit, "g"))

\* Variant: a convertible quantity is added without being converted.
addItemQuantity_Unconverted(totalAvailable, item, ingredient) ==
    LET itemQuantity == item.currentSize.size
        itemUnit == itemUnitOf(item, ingredient)
        unit == ingredient.servingUnit
    IN  IF itemUnit = unit \/ canConvert(itemUnit, unit)
        THEN RatAdd(totalAvailable, itemQuantity)
        ELSE totalAvailable

\* Variant: the quantity of an item replaces the total instead of adding to it.
addItemQuantity_Replacing(totalAvailable, item, ingredient) ==
    LET itemQuantity == item.currentSize.size
        itemUnit == itemUnitOf(item, ingredient)
        unit == ingredient.servingUnit
    IN  IF itemUnit = unit THEN itemQuantity
        ELSE IF canConvert(itemUnit, unit)
        THEN LET converted == convertUnit(itemQuantity, itemUnit, unit)
             IN  IF converted # Null THEN converted
                 ELSE totalAvailable
        ELSE totalAvailable

\* One iteration of the summing loop: totalAvailable after `item`.
addItemQuantity(totalAvailable, item, ingredient) ==
    LET itemQuantity == item.currentSize.size
        itemUnit == itemUnitOf(item, ingredient)
        unit == ingredient.servingUnit
    IN  IF itemUnit = unit THEN RatAdd(totalAvailable, itemQuantity)
        ELSE IF canConvert(itemUnit, unit)
        THEN LET converted == convertUnit(itemQuantity, itemUnit, unit)
             IN  IF converted # Null THEN RatAdd(totalAvailable, converted)
                 ELSE totalAvailable
        ELSE totalAvailable

\* The summing loop over the first k matching items.
RECURSIVE sumMatching(_, _, _)
sumMatching(matching, k, ingredient) ==
    IF k = 0 THEN Zero
    ELSE addItemQuantity(sumMatching(matching, k - 1, ingredient), matching[k], ingredient)

\* Variant: the shortage is the plain difference.
summedResult_NoMax(ingredient, totalAvailable) ==
    LET needed == ingredient.quantity
    IN  [ingredient   |-> ingredient,
         available    |-> totalAvailable,
         needed       |-> needed,
         unit         |-> ingredient.servingUnit,
         isSufficient |-> RatLeq(needed, totalAvailable),
         shortage     |-> RatSub(needed, totalAvailable)]

\* The result returned when at least one pantry item matches.
summedResult(ingredient, totalAvailable) ==
    LET needed == ingredient.quantity
    IN  [ingredient   |-> ingredient,
         available    |-> totalAvailable,
         needed       |-> needed,
         unit         |-> ingredient.servingUnit,
         isSufficient |-> RatLeq(needed, totalAvailable),
         shortage     |-> RatMax(Zero, RatSub(needed, totalAvailable))]

calculateIngredientAvailability(ingredient, items) ==
    LET matching == matchingItems(ingredient, items)
    IN  IF Len(matching) = 0 THEN noMatchResult(ingredient)
        ELSE summedResult(ingredient, sumMatching(matching, Len(matching), ingredient))

----------------------------------------------------------------------------
(* utils/recipeReadiness.ts: calculateRecipeReadiness                      *)

\* recipe.ingredients.map(calculateIngredientAvailability)
ingredientDetailsOf(recipe, items) ==
    [i \in 1..Len(recipe.ingredients) |->
        calculateIngredientAvailability(recipe.ingredients[i], items)]

availableCount(details) ==
    LET keep(detail) == detail.isSufficient
    IN  Len(SelectSeq(details, keep))

\* Variant: every ingredient that is not sufficient counts as missing.
missingCount_NotSufficient(details) ==
    LET keep(detail) == ~detail.isSufficient
    IN  Len(SelectSeq(details, keep))

missingCount(details) ==
    LET keep(detail) == detail.available = Zero
    IN  Len(SelectSeq(details, keep))

\* Variant: the partial filter forgets to exclude the sufficient ingredients.
partialCount_AnyAvailable(details) ==
    LET keep(detail) == RatLess(Zero, detail.available)
    IN  Len(SelectSeq(details, keep))

partialCount(details) ==
    LET keep(detail) == RatLess(Zero, detail.available) /\ ~detail.isSufficient
    IN  Len(SelectSeq(details, keep))

\* Variant: a partial ingredient gets full credit.
scoreOf_FullCreditForPartial(availableIngredients, partialIngredients, totalIngredients) ==
    IF totalIngredients = 0 THEN Zero
    ELSE RatMul(RatDiv(RatAdd(Rat(availableIngredients), Rat(partialIngredients)),
                       Rat(totalIngredients)),
                Rat(100))

\* The unrounded score: full credit for sufficient, half for partial.
scoreOf(availableIngredients, partialIngredients, totalIngredients) ==
    IF totalIngredients = 0 THEN Zero
    ELSE RatMul(RatDiv(RatAdd(Rat(availableIngredients),
                              RatMul(Rat(partialIngredients), Norm(5, 10))),
                       Rat(totalIngredients)),
                Rat(100))

calculateRecipeReadiness(recipe, items) ==
    LET ingredientDetails == ingredientDetailsOf(recipe, items)
        totalIngredients == Len(ingredientDetails)
        availableIngredients == availableCount(ingredientDetails)
        missingIngredients == missingCount(ingredientDetails)
        partialIngredients == partialCount(ingredientDetails)
        score == scoreOf(availableIngredients, partialIngredients, totalIngredients)
    IN  [recipeId             |-> recipe.id,
         totalIngredients     |-> totalIngredients,
         availableIngredients |-> availableIngredients,
         partialIngredients   |-> partialIngredients,
         missingIngredients   |-> missingIngredients,
         readinessScore       |-> MathRound(score),
         ingredientDetails    |-> ingredientDetails]

----------------------------------------------------------------------------
(* utils/recipeReadiness.ts: calculateRecipesReadiness                     *)

\* Map.set(key, value) on a map kept as a function.
MapSet(m, key, value) ==
    [k \in DOMAIN m \cup {key} |-> IF k = key THEN value ELSE m[k]]

\* Variant: a recipe reserves the stock of the foods it uses.
batchStep_Reserving(loop, recipe) ==
    LET used(item) == \E i \in 1..Len(recipe.ingredients) :
                          recipe.ingredients[i].food.id = item.food.id
    IN  [readinessMap |->
             MapSet(loop.readinessMap, recipe.id,
                    calculateRecipeReadiness(recipe, loop.pantryItems)),
         pantryItems |->
             [i \in 1..Len(loop.pantryItems) |->
                 IF used(loop.pantryItems[i])
                 THEN [loop.pantryItems[i] EXCEPT !.currentSize.size = Zero]
                 ELSE loop.pantryItems[i]]]

\* One iteration of the batch loop.  `loop` is the map built so far together
\* with the pantry array the caller passed in.
batchStep(loop, recipe) ==
    [readinessMap |->
         MapSet(loop.readinessMap, recipe.id,
                calculateRecipeReadiness(recipe, loop.pantryItems)),
     pantryItems |-> loop.pantryItems]

RECURSIVE batchLoop(_, _, _)
batchLoop(rs, k, items) ==
    IF k = 0 THEN [readinessMap |-> <<>>, pantryItems |-> items]
    ELSE batchStep(batchLoop(rs, k - 1, items), rs[k])

\* The returned map, and the caller's pantry array after the call.
calculateRecipesReadiness(rs, items) == batchLoop(rs, Len(rs), items)

----------------------------------------------------------------------------
(* Input domains                                                           *)

\* All sequences over S of length at most n.
RECURSIVE SeqsUpTo(_, _)
SeqsUpTo(S, n) ==
    IF n = 0 THEN {<<>>}
    ELSE LET shorter == SeqsUpTo(S, n - 1)
         IN  shorter \cup {Append(s, x) : s \in {t \in shorter : Len(t) = n - 1}, x \in S}

\* Food records: only the fields the engine reads.  Food 2 has no servingUnit.
Foods == {[id |-> 1, servingUnit |-> "kg"], [id |-> 2, servingUnit |-> ""]}

Statuses == {"good", "expiring-soon", "expired"}

MkItem(food, size, unit, status) ==
    [food |-> food, currentSize |-> [size |-> size, unit |-> unit], status |-> status]

MkIngredient(food, quantity, unit) ==
    [food |-> food, quantity |-> quantity, servingUnit |-> unit]

\* Pantry items and ingredients the availability resolver is applied to.
ItemSizes == {Rat(0), Rat(2)}

ItemUnits == {"g", "kg", "slice", ""}

Quantities == {Rat(0), Rat(2)}

IngredientUnits == {"g", "kg", "slice"}

Items ==
    {MkItem(f, s, u, st) : f \in Foods, s \in ItemSizes, u \in ItemUnits, st \in Statuses}

Ingredients ==
    {MkIngredient(f, q, u) : f \in Foods, q \in Quantities, u \in IngredientUnits}

\* Inputs of the readiness scorer: one recipe against the pantry.
ReadinessItems ==
    {MkItem(f, s, u, "good") : f \in Foods, s \in {Rat(1), Rat(2)}, u \in {"g", "slice"}}

ReadinessIngredients ==
    {MkIngredient(f, q, "g") : f \in Foods, q \in {Rat(0), Rat(2)}}

MkRecipe(id, ingredients) == [id |-> id, ingredients |-> ingredients]

\* Every short recipe, and long recipes made of one ingredient followed by
\* copies of another, on both sides of the length at which half an
\* ingredient weighs half a point of the score.
LongRecipes ==
    {MkRecipe(1, [i \in 1..n |-> IF i = 1 THEN a ELSE b]) :
        n \in {LongLen - 1, LongLen}, a \in ReadinessIngredients, b \in ReadinessIngredients}

Recipes ==
    {MkRecipe(1, ings) : ings \in SeqsUpTo(ReadinessIngredients, MaxIngredients)}
        \cup LongRecipes

\* Inputs of the batch form: recipes with distinct ids against the pantry.
BatchItems ==
    {MkItem(f, s, "g", "good") : f \in Foods, s \in {Rat(1), Rat(2)}}

BatchIngredients == {MkIngredient(f, Rat(2), "g") : f \in Foods}

RecipeBatches ==
    UNION {
        {[i \in 1..Len(b) |-> MkRecipe(i, b[i])],
         [i \in 1..Len(b) |-> MkRecipe(Len(b) + 1 - i, b[i])]} :
        b \in SeqsUpTo(SeqsUpTo(BatchIngredients, MaxBatchIngredients), MaxRecipes)}

NoResult == [none |-> TRUE]

----------------------------------------------------------------------------
(* Specification of the availability resolver                              *)

InitAvailability ==
    /\ pantryItems \in SeqsUpTo(Items, MaxPantry)
    /\ recipes = <<>>
    /\ called = "none"
    /\ availability = NoResult
    /\ readiness = NoResult
    /\ readinessMap = <<>>
    /\ now = 0
    /\ itemStatus = NoResult
    /\ conversion = NoResult
    /\ calorieResult = NoResult
    /\ similarity = NoResult
    /\ draft = NoResult

CalcIngredientAvailability ==
    /\ called = "none"
    /\ \E ingredient \in Ingredients :
          availability' = calculateIngredientAvailability(ingredient, pantryItems)
    /\ called' = "calculateIngredientAvailability"
    /\ UNCHANGED <<pantryItems, recipes, readiness, readinessMap,
                   now, itemStatus, conversion, calorieResult,
                   similarity, draft>>

NextAvailability == CalcIngredientAvailability

SpecAvailability == InitAvailability /\ [][NextAvailability]_vars

----------------------------------------------------------------------------
(* Specification of the readiness scorer                                   *)

InitReadiness ==
    /\ pantryItems \in SeqsUpTo(ReadinessItems, MaxPantry)
    /\ recipes \in {<<recipe>> : recipe \in Recipes}
    /\ called = "none"
    /\ availability = NoResult
    /\ readiness = NoResult
    /\ readinessMap = <<>>
    /\ now = 0
    /\ itemStatus = NoResult
    /\ conversion = NoResult
    /\ calorieResult = NoResult
    /\ similarity = NoResult
    /\ draft = NoResult

CalcRecipeReadiness ==
    /\ called = "none"
    /\ \E i \in 1..Len(recipes) :
          readiness' = calculateRecipeReadiness(recipes[i], pantryItems)
    /\ called' = "calculateRecipeReadiness"
    /\ UNCHANGED <<pantryItems, recipes, availability, readinessMap,
                   now, itemStatus, conversion, calorieResult,
                   similarity, draft>>

NextReadiness == CalcRecipeReadiness

SpecReadiness == InitReadiness /\ [][NextReadiness]_vars

----------------------------------------------------------------------------
(* Specification of the batch form, as the recipe list page calls it       *)

InitBatch ==
    /\ pantryItems \in SeqsUpTo(BatchItems, MaxPantry)
    /\ recipes \in RecipeBatches
    /\ called = "none"
    /\ availability = NoResult
    /\ readiness = NoResult
    /\ readinessMap = <<>>
    /\ now = 0
    /\ itemStatus = NoResult
    /\ conversion = NoResult
    /\ calorieResult = NoResult
    /\ similarity = NoResult
    /\ draft = NoResult

CalcRecipesReadiness ==
    /\ called = "none"
    /\ LET out == calculateRecipesReadiness(recipes, pantryItems)
       IN  /\ readinessMap' = out.readinessMap
           /\ pantryItems' = out.pantryItems
    /\ called' = "calculateRecipesReadiness"
    /\ UNCHANGED <<recipes, availability, readiness,
                   now, itemStatus, conversion, calorieResult,
                   similarity, draft>>

NextBatch == CalcRecipesReadiness

SpecBatch == InitBatch /\ [][NextBatch]_vars

----------------------------------------------------------------------------
(* Specification of the unit conversion functions                          *)

\* Unit names passed to the conversion functions: every mass and volume
\* unit, two custom units, the empty name and a name the module does not
\* list.
UnitNames == MASS_UNITS \cup VOLUME_UNITS \cup {"slice", "piece", "", "stick"}

\* Calls of convertUnit: small values between any two unit names, and 500
\* between the metric mass units and a custom unit.
ConvertInputs ==
    {<<value, fromUnit, toUnit>> :
        value \in {Rat(0), Rat(1), Norm(3, 2), Rat(-2)},
        fromUnit \in UnitNames, toUnit \in UnitNames}
    \cup {<<Rat(500), fromUnit, toUnit>> :
             fromUnit \in {"g", "kg", "slice"}, toUnit \in {"g", "kg", "slice"}}

InitUnits ==
    /\ pantryItems = <<>>
    /\ recipes = <<>>
    /\ called = "none"
    /\ availability = NoResult
    /\ readiness = NoResult
    /\ readinessMap = <<>>
    /\ now = 0
    /\ itemStatus = NoResult
    /\ conversion = NoResult
    /\ calorieResult = NoResult
    /\ similarity = NoResult
    /\ draft = NoResult

CanConvert ==
    /\ \E fromUnit \in UnitNames, toUnit \in UnitNames :
          conversion' = [fromUnit |-> fromUnit,
                         toUnit |-> toUnit,
                         canConvert |-> canConvert(fromUnit, toUnit),
                         reverse |-> canConvert(toUnit, fromUnit)]
    /\ called' = "canConvert"
    /\ UNCHANGED <<pantryItems, recipes, availability, readiness, readinessMap,
                   now, itemStatus, calorieResult,
                   similarity, draft>>

\* convertUnit, and the conversion of its result back to the first unit.
ConvertUnit ==
    /\ \E input \in ConvertInputs :
          LET value == input[1]
              fromUnit == input[2]
              toUnit == input[3]
              result == convertUnit(value, fromUnit, toUnit)
          IN  conversion' = [value |-> value,
                             fromUnit |-> fromUnit,
                             toUnit |-> toUnit,
                             result |-> result,
                             back |-> IF result = Null THEN Null
                                      ELSE convertUnit(result, toUnit, fromUnit)]
    /\ called' = "convertUnit"
    /\ UNCHANGED <<pantryItems, recipes, availability, readiness, readinessMap,
                   now, itemStatus, calorieResult,
                   similarity, draft>>

NextUnits == CanConvert \/ ConvertUnit

SpecUnits == InitUnits /\ [][NextUnits]_vars

----------------------------------------------------------------------------
(* Specification of the calorie calculator                                 *)

CalorieUnits == {"g", "kg", "ml", "cup", "slice", "piece"}

BaseCalories == {Rat(0), Rat(52), Rat(150)}

BaseServingSizes == {Rat(0), Rat(1), Rat(2), Rat(100)}

TargetAmounts == {Rat(0), Rat(1), Rat(4), Norm(3, 2)}

InitCalories ==
    /\ pantryItems = <<>>
    /\ recipes = <<>>
    /\ called = "none"
    /\ availability = NoResult
    /\ readiness = NoResult
    /\ readinessMap = <<>>
    /\ now = 0
    /\ itemStatus = NoResult
    /\ conversion = NoResult
    /\ calorieResult = NoResult
    /\ similarity = NoResult
    /\ draft = NoResult

\* calculateCalories, and the same call for twice the amount.
CalculateCalories ==
    /\ \E baseCalories \in BaseCalories, baseServingSize \in BaseServingSizes,
          baseServingUnit \in CalorieUnits, targetAmount \in TargetAmounts,
          targetUnit \in CalorieUnits :
          calorieResult' =
              [baseCalories |-> baseCalories,
               baseServingSize |-> baseServingSize,
               baseServingUnit |-> baseServingUnit,
               targetAmount |-> targetAmount,
               targetUnit |-> targetUnit,
               calories |-> calculateCalories(baseCalories, baseServingSize,
                                baseServingUnit, targetAmount, targetUnit),
               doubled |-> calculateCalories(baseCalories, baseServingSize,
                               baseServingUnit, RatMul(Rat(2), targetAmount),
                               targetUnit)]
    /\ called' = "calculateCalories"
    /\ UNCHANGED <<pantryItems, recipes, availability, readiness, readinessMap,
                   now, itemStatus, conversion, similarity, draft>>

NextCalories == CalculateCalories

SpecCalories == InitCalories /\ [][NextCalories]_vars

----------------------------------------------------------------------------
(* stores/recipes.ts: useRecipeStore                                       *)

\* The value of a parameter that the caller does not pass.  As a unit name
\* it is equal to itself and to no name of the unit lists.
Undefined == "undefined"

\* calculateCalories({ baseCalories, baseServingSize, baseServingUnit,
\* targetAmount, targetUnit }): the store passes one object to a function of
\* five positional parameters, so the object is bound to baseCalories and
\* the four other parameters are undefined.  In the arithmetic of the body
\* an object and undefined both count as NaN.
calculateCaloriesOfObject(params) ==
    calculateCalories(NaN, NaN, Undefined, NaN, Undefined)

\* ingredient.servingUnit || ingredient.food.servingUnit || 'unit'
baseServingUnitOf(ingredient) ==
    OrElse(OrElse(ingredient.servingUnit, ingredient.food.servingUnit), "unit")

\* const baseServingSize = ingredient.quantity
baseServingSizeOf(ingredient) == ingredient.quantity

\* The ingredient that updateIngredientQuantity stores.
withQuantity(ingredient, newQuantity) ==
    LET baseServingUnit == baseServingUnitOf(ingredient)
        calculatedCalories ==
            calculateCaloriesOfObject(
                [baseCalories |-> ingredient.calories,
                 baseServingSize |-> baseServingSizeOf(ingredient),
                 baseServingUnit |-> baseServingUnit,
                 targetAmount |-> newQuantity,
                 targetUnit |-> baseServingUnit])
    IN  [ingredient EXCEPT
            !.quantity = newQuantity,
            !.calories = IF calculatedCalories # Null THEN calculatedCalories
                                                      ELSE ingredient.calories]

\* The ingredient that updateIngredientServingUnit stores.
withServingUnit(ingredient, newUnit) ==
    LET calculatedCalories ==
            calculateCaloriesOfObject(
                [baseCalories |-> ingredient.food.calories,
                 baseServingSize |-> baseServingSizeOf(ingredient),
                 baseServingUnit |-> baseServingUnitOf(ingredient),
                 targetAmount |-> ingredient.quantity,
                 targetUnit |-> newUnit])
    IN  [ingredient EXCEPT
            !.servingUnit = newUnit,
            !.calories = IF calculatedCalories # Null THEN calculatedCalories
                                                      ELSE ingredient.calories]

\* The ingredient at the 0-based index ingredientId of every recipe with the
\* id recipeId is replaced.
updateIngredientQuantity(rs, recipeId, ingredientId, newQuantity) ==
    [r \in 1..Len(rs) |->
        IF rs[r].id = recipeId
        THEN [rs[r] EXCEPT !.ingredients =
                 [i \in 1..Len(rs[r].ingredients) |->
                     IF i - 1 = ingredientId
                     THEN withQuantity(rs[r].ingredients[i], newQuantity)
                     ELSE rs[r].ingredients[i]]]
        ELSE rs[r]]

updateIngredientServingUnit(rs, recipeId, ingredientId, newUnit) ==
    [r \in 1..Len(rs) |->
        IF rs[r].id = recipeId
        THEN [rs[r] EXCEPT !.ingredients =
                 [i \in 1..Len(rs[r].ingredients) |->
                     IF i - 1 = ingredientId
                     THEN withServingUnit(rs[r].ingredients[i], newUnit)
                     ELSE rs[r].ingredients[i]]]
        ELSE rs[r]]

----------------------------------------------------------------------------
(* stores/initialData.ts: the seed of the recipe store                     *)

MkFood(id, calories, servingSize, servingUnit) ==
    [id |-> id, calories |-> Rat(calories), servingSize |-> Rat(servingSize),
     servingUnit |-> servingUnit]

hamFood == MkFood(1, 75, 1, "slice")

cheeseFood == MkFood(2, 100, 1, "slice")

breadFood == MkFood(3, 100, 1, "slice")

spaghettiFood == MkFood(4, 350, 100, "g")

groundBeefFood == MkFood(5, 200, 100, "g")

DEFAULT_SERVING_UNIT == "g"

MkSeedIngredient(food, quantity, calories) ==
    [food |-> food, quantity |-> Rat(quantity), calories |-> Rat(calories),
     servingUnit |-> OrElse(food.servingUnit, DEFAULT_SERVING_UNIT)]

buildInitialRecipes ==
    <<[id |-> 1,
       ingredients |-> <<MkSeedIngredient(hamFood, 2, 150),
                         MkSeedIngredient(cheeseFood, 1, 100),
                         MkSeedIngredient(breadFood, 2, 200)>>],
      [id |-> 2,
       ingredients |-> <<MkSeedIngredient(spaghettiFood, 1, 350),
                         MkSeedIngredient(groundBeefFood, 2, 400)>>]>>

----------------------------------------------------------------------------
(* Specification of the recipe store                                       *)

RecipeIds == {1, 2}

IngredientIds == 0..2

NewQuantities == {Rat(0), Rat(2)}

NewUnits == {"g", "kg", "slice"}

InitRecipes ==
    /\ pantryItems = <<>>
    /\ recipes = buildInitialRecipes
    /\ called = "none"
    /\ availability = NoResult
    /\ readiness = NoResult
    /\ readinessMap = <<>>
    /\ now = 0
    /\ itemStatus = NoResult
    /\ conversion = NoResult
    /\ calorieResult = NoResult
    /\ similarity = NoResult
    /\ draft = NoResult

RecipesFrame ==
    UNCHANGED <<pantryItems, called, availability, readiness, readinessMap,
                now, itemStatus, conversion, calorieResult,
                   similarity, draft>>

UpdateIngredientQuantity ==
    /\ \E recipeId \in RecipeIds, ingredientId \in IngredientIds,
          newQuantity \in NewQuantities :
          recipes' = updateIngredientQuantity(recipes, recipeId, ingredientId,
                                              newQuantity)
    /\ RecipesFrame

UpdateIngredientServingUnit ==
    /\ \E recipeId \in RecipeIds, ingredientId \in IngredientIds,
          newUnit \in NewUnits :
          recipes' = updateIngredientServingUnit(recipes, recipeId, ingredientId,
                                                 newUnit)
    /\ RecipesFrame

NextRecipes == UpdateIngredientQuantity \/ UpdateIngredientServingUnit

SpecRecipes == InitRecipes /\ [][NextRecipes]_vars

----------------------------------------------------------------------------
(* Pages/Recipe/Store.tsx: calculateJaccardSimilarity                      *)

\* A name is the sequence of its characters.
toLowerCaseChar(c) ==
    CASE c = "A" -> "a"
      [] c = "B" -> "b"
      [] c = "C" -> "c"
      [] c = "D" -> "d"
      [] OTHER -> c

toLowerCase(name) == [i \in 1..Len(name) |-> toLowerCaseChar(name[i])]

RECURSIVE trimStart(_)
trimStart(name) ==
    IF name # <<>> /\ Head(name) = " " THEN trimStart(Tail(name)) ELSE name

RECURSIVE trimEnd(_)
trimEnd(name) ==
    IF name # <<>> /\ name[Len(name)] = " "
    THEN trimEnd(SubSeq(name, 1, Len(name) - 1))
    ELSE name

trim(name) == trimEnd(trimStart(name))

\* new Set(names.map(name => name.toLowerCase().trim()))
normalizedSet(names) == {trim(toLowerCase(names[i])) : i \in 1..Len(names)}

\* Variant: the names are compared as they are written.
calculateJaccardSimilarity_AsWritten(ingredientsA, ingredientsB) ==
    LET setA == {ingredientsA[i] : i \in 1..Len(ingredientsA)}
        setB == {ingredientsB[i] : i \in 1..Len(ingredientsB)}
    IN  IF setA = {} \/ setB = {} THEN Zero
        ELSE Norm(Cardinality(setA \cap setB), Cardinality(setA \cup setB))

\* Variant: the overlap is taken relative to the first list.
calculateJaccardSimilarity_OfFirst(ingredientsA, ingredientsB) ==
    LET setA == normalizedSet(ingredientsA)
        setB == normalizedSet(ingredientsB)
    IN  IF setA = {} \/ setB = {} THEN Zero
        ELSE Norm(Cardinality(setA \cap setB), Cardinality(setA))

calculateJaccardSimilarity(ingredientsA, ingredientsB) ==
    LET setA == normalizedSet(ingredientsA)
        setB == normalizedSet(ingredientsB)
        intersection == {x \in setA : x \in setB}
        union == setA \cup setB
    IN  IF Cardinality(setA) = 0 \/ Cardinality(setB) = 0 THEN Zero
        ELSE Norm(Cardinality(intersection), Cardinality(union))

----------------------------------------------------------------------------
(* Specification of the Jaccard similarity                                 *)

\* Ingredient names: "a", "A ", " B", "c" and "d".
Names == {<<"a">>, <<"A", " ">>, <<" ", "B">>, <<"c">>, <<"d">>}

NameLists == SeqsUpTo(Names, MaxNames)

InitJaccard ==
    /\ pantryItems = <<>>
    /\ recipes = <<>>
    /\ called = "none"
    /\ availability = NoResult
    /\ readiness = NoResult
    /\ readinessMap = <<>>
    /\ now = 0
    /\ itemStatus = NoResult
    /\ conversion = NoResult
    /\ calorieResult = NoResult
    /\ similarity = NoResult
    /\ draft = NoResult

\* calculateJaccardSimilarity(A, B), with the results of the calls for
\* (B, A) and for (A, A).
CalculateJaccardSimilarity ==
    /\ called = "none"
    /\ \E ingredientsA \in NameLists, ingredientsB \in NameLists :
          similarity' =
              [ingredientsA |-> ingredientsA,
               ingredientsB |-> ingredientsB,
               similarity |-> calculateJaccardSimilarity(ingredientsA, ingredientsB),
               swapped |-> calculateJaccardSimilarity(ingredientsB, ingredientsA),
               self |-> calculateJaccardSimilarity(ingredientsA, ingredientsA)]
    /\ called' = "calculateJaccardSimilarity"
    /\ UNCHANGED <<pantryItems, recipes, availability, readiness, readinessMap,
                   now, itemStatus, conversion, calorieResult, draft>>

NextJaccard == CalculateJaccardSimilarity

SpecJaccard == InitJaccard /\ [][NextJaccard]_vars

----------------------------------------------------------------------------
(* Pages/Recipe/Store.tsx: similarRecipe                                   *)

\* ingredients.map(ing => ing.food.name)
foodNames(ingredients) ==
    [i \in 1..Len(ingredients) |-> ingredients[i].food.name]

\* Variant: a later recipe of equal similarity replaces the match.
similarStep_LastWins(bestMatch, existingRecipe, currentIngredients) ==
    LET sim == calculateJaccardSimilarity(currentIngredients,
                                          foodNames(existingRecipe.ingredients))
    IN  IF /\ RatLeq(<<3, 10>>, sim)
           /\ (bestMatch = Null \/ RatLeq(bestMatch[1].similarity, sim))
        THEN <<[recipe |-> existingRecipe, similarity |-> sim]>>
        ELSE bestMatch

\* One turn of the loop over the existing recipes.  The match is Null or the
\* one-element tuple of the record { recipe, similarity }.
similarStep(bestMatch, existingRecipe, currentIngredients) ==
    LET sim == calculateJaccardSimilarity(currentIngredients,
                                          foodNames(existingRecipe.ingredients))
    IN  IF /\ RatLeq(<<3, 10>>, sim)
           /\ (bestMatch = Null \/ RatLess(bestMatch[1].similarity, sim))
        THEN <<[recipe |-> existingRecipe, similarity |-> sim]>>
        ELSE bestMatch

RECURSIVE similarLoop(_, _, _)
similarLoop(bestMatch, rs, currentIngredients) ==
    IF rs = <<>> THEN bestMatch
    ELSE similarLoop(similarStep(bestMatch, Head(rs), currentIngredients),
                     Tail(rs), currentIngredients)

similarRecipe(recipe, rs) ==
    IF Len(recipe.ingredients) = 0 THEN Null
    ELSE similarLoop(Null, rs, foodNames(recipe.ingredients))

----------------------------------------------------------------------------
(* Specification of the similar-recipe suggestion                          *)

MkNamedIngredients(names) ==
    [i \in 1..Len(names) |-> [food |-> [name |-> names[i]]]]

\* Ingredient lists of drafts: none, "a", "a" with " B", "A " with "c".
DraftNames ==
    {<<>>, <<<<"a">>>>, <<<<"a">>, <<" ", "B">>>>, <<<<"A", " ">>, <<"c">>>>}

\* Ingredient lists of existing recipes.
ExistingNames ==
    {<<>>, <<<<"a">>>>, <<<<"d">>>>, <<<<" ", "B">>, <<"c">>>>,
     <<<<"A", " ">>, <<" ", "B">>>>, <<<<"a">>, <<"c">>, <<"d">>>>}

\* The existing recipes: lists of up to MaxRecipes recipes, numbered in order.
RecipeBooks ==
    {[i \in 1..Len(book) |->
         [id |-> i, ingredients |-> MkNamedIngredients(book[i])]] :
        book \in SeqsUpTo(ExistingNames, MaxRecipes)}

InitSimilar ==
    /\ pantryItems = <<>>
    /\ recipes \in RecipeBooks
    /\ called = "none"
    /\ availability = NoResult
    /\ readiness = NoResult
    /\ readinessMap = <<>>
    /\ now = 0
    /\ itemStatus = NoResult
    /\ conversion = NoResult
    /\ calorieResult = NoResult
    /\ similarity = NoResult
    /\ draft \in {[ingredients |-> MkNamedIngredients(names)] : names \in DraftNames}

SimilarRecipe ==
    /\ called = "none"
    /\ similarity' = [bestMatch |-> similarRecipe(draft, recipes)]
    /\ called' = "similarRecipe"
    /\ UNCHANGED <<pantryItems, recipes, availability, readiness, readinessMap,
                   now, itemStatus, conversion, calorieResult, draft>>

NextSimilar == SimilarRecipe

SpecSimilar == InitSimilar /\ [][NextSimilar]_vars

----------------------------------------------------------------------------
(* Properties of calculateIngredientAvailability                           *)

AvailabilityDone == called = "calculateIngredientAvailability"

RemoveAt(s, i) == SubSeq(s, 1, i - 1) \o SubSeq(s, i + 1, Len(s))

\* The item is left out by the filter of the resolver, as the spec words it.
Ignored(item, ingredient) ==
    item.status = "expired" \/ item.food.id # ingredient.food.id

RECURSIVE RatSum(_, _)
RatSum(f, S) ==
    IF S = {} THEN Zero
    ELSE LET x == CHOOSE y \in S : TRUE
         IN  RatAdd(f[x], RatSum(f, S \ {x}))

\* What one counted item contributes when its size is read in unit `u`.
Contribution(item, u, ingredient) ==
    IF u = ingredient.servingUnit THEN item.currentSize.size
    ELSE IF getUnitCategory(u) = getUnitCategory(ingredient.servingUnit)
            /\ getUnitCategory(u) # "custom"
    THEN convertUnit(item.currentSize.size, u, ingredient.servingUnit)
    ELSE Zero

Counted(ingredient, items) ==
    {i \in 1..Len(items) : ~Ignored(items[i], ingredient)}

\* C1: an expired pantry item, or one of another food, is never counted:
\* changing its currentSize or removing it leaves `available` unchanged.
C1_IgnoredItemsDoNotCount ==
    AvailabilityDone =>
        LET ing == availability.ingredient
        IN  \A i \in 1..Len(pantryItems) :
                Ignored(pantryItems[i], ing) =>
                    /\ \A s \in ItemSizes :
                          calculateIngredientAvailability(ing,
                              [pantryItems EXCEPT ![i].currentSize.size = s]).available
                          = availability.available
                    /\ calculateIngredientAvailability(ing,
                           RemoveAt(pantryItems, i)).available
                       = availability.available

\* C1 witness: an expired item of the ingredient's food, in the ingredient's
\* unit and of positive size, sits next to a counted item.
C1_Witness ==
    /\ AvailabilityDone
    /\ availability.available # Zero
    /\ \E i \in 1..Len(pantryItems) :
          /\ pantryItems[i].status = "expired"
          /\ pantryItems[i].food.id = availability.ingredient.food.id
          /\ pantryItems[i].currentSize.unit = availability.ingredient.servingUnit
          /\ pantryItems[i].currentSize.size # Zero

\* C2 as stated: `available` is the sum, over the non-expired items of the
\* food, of the size read in the item's own currentSize.unit (added directly
\* when equal to the ingredient's unit, converted when convertible, else 0).
C2_SumInItemsOwnUnit ==
    AvailabilityDone =>
        LET ing == availability.ingredient
            own == [i \in 1..Len(pantryItems) |->
                       Contribution(pantryItems[i], pantryItems[i].currentSize.unit, ing)]
        IN  availability.available = RatSum(own, Counted(ing, pantryItems))

\* C2 amended: the same sum with each item's unit taken as currentSize.unit,
\* or the food's servingUnit when that is empty, or "g" when both are empty.
C2_SumInEffectiveUnit ==
    AvailabilityDone =>
        LET ing == availability.ingredient
            eff == [i \in 1..Len(pantryItems) |->
                       Contribution(pantryItems[i],
                           OrElse(pantryItems[i].currentSize.unit,
                                  OrElse(ing.food.servingUnit, "g")), ing)]
        IN  availability.available = RatSum(eff, Counted(ing, pantryItems))

\* C2 witness: two counted items, one in the ingredient's unit and one in a
\* different convertible unit, both of positive size.
C2_Witness ==
    /\ AvailabilityDone
    /\ \E i, j \in Counted(availability.ingredient, pantryItems) :
          /\ pantryItems[i].currentSize.unit = availability.ingredient.servingUnit
          /\ pantryItems[j].currentSize.unit # availability.ingredient.servingUnit
          /\ pantryItems[j].currentSize.unit # ""
          /\ canConvert(pantryItems[j].currentSize.unit, availability.ingredient.servingUnit)
          /\ pantryItems[i].currentSize.size # Zero
          /\ pantryItems[j].currentSize.size # Zero

\* C3 as stated: isSufficient is true exactly when available >= needed, also
\* for an ingredient whose quantity is the placeholder 0.
C3_SufficientIffAvailableCoversNeeded ==
    AvailabilityDone =>
        (availability.isSufficient <=> RatLeq(availability.needed, availability.available))

NonNegativeInputs ==
    /\ RatLeq(Zero, availability.ingredient.quantity)
    /\ \A i \in 1..Len(pantryItems) : RatLeq(Zero, pantryItems[i].currentSize.size)

\* C4: with a quantity >= 0 and non-negative sizes, shortage is
\* max(0, needed - available) and is never negative.
C4_ShortageIsClampedDifference ==
    (AvailabilityDone /\ NonNegativeInputs) =>
        /\ RatLeq(Zero, availability.shortage)
        /\ IF RatLeq(availability.needed, availability.available)
           THEN availability.shortage = Zero
           ELSE RatAdd(availability.shortage, availability.available) = availability.needed

\* C4 witness: more is on hand than needed, from a counted item.
C4_Witness ==
    /\ AvailabilityDone
    /\ NonNegativeInputs
    /\ RatLess(availability.needed, availability.available)
    /\ RatLess(Zero, availability.needed)

\* C5: with no non-expired pantry item of the ingredient's food the result is
\* available 0, needed = quantity, not sufficient, shortage = needed.
C5_NoMatchingInventory ==
    (AvailabilityDone /\ Counted(availability.ingredient, pantryItems) = {}) =>
        /\ availability.available = Zero
        /\ availability.needed = availability.ingredient.quantity
        /\ availability.isSufficient = FALSE
        /\ availability.shortage = availability.needed
        /\ availability.unit = availability.ingredient.servingUnit

\* C5 witness: the pantry holds only an expired item of the food and an item
\* of another food, and a positive quantity is needed.
C5_Witness ==
    /\ AvailabilityDone
    /\ Counted(availability.ingredient, pantryItems) = {}
    /\ Len(pantryItems) = 2
    /\ \E i \in 1..Len(pantryItems) :
          pantryItems[i].food.id = availability.ingredient.food.id
    /\ \E i \in 1..Len(pantryItems) :
          pantryItems[i].food.id # availability.ingredient.food.id
    /\ RatLess(Zero, availability.needed)

----------------------------------------------------------------------------
(* Properties of calculateRecipeReadiness                                  *)

ReadinessDone == called = "calculateRecipeReadiness"

\* The recipe the latest readiness result was computed for.
ScoredRecipe == recipes[1]

SufficientSet ==
    {i \in 1..Len(readiness.ingredientDetails) :
        readiness.ingredientDetails[i].isSufficient}

MissingSet ==
    {i \in 1..Len(readiness.ingredientDetails) :
        readiness.ingredientDetails[i].available = Zero}

PartialSet ==
    {i \in 1..Len(readiness.ingredientDetails) :
        /\ RatLess(Zero, readiness.ingredientDetails[i].available)
        /\ ~readiness.ingredientDetails[i].isSufficient}

\* s = round(num / den) for den > 0, halves rounded up.
IsRounded(s, num, den) ==
    /\ (2 * s - 1) * den <= 2 * num
    /\ 2 * num < (2 * s + 1) * den

\* C6: the counts are those of the per-ingredient results and the score is
\* round((available + 0.5 * partial) / total * 100), or 0 without ingredients.
C6_CountsAndScore ==
    ReadinessDone =>
        /\ readiness.recipeId = ScoredRecipe.id
        /\ readiness.totalIngredients = Len(ScoredRecipe.ingredients)
        /\ readiness.ingredientDetails =
               [i \in 1..Len(ScoredRecipe.ingredients) |->
                   calculateIngredientAvailability(ScoredRecipe.ingredients[i], pantryItems)]
        /\ readiness.availableIngredients = Cardinality(SufficientSet)
        /\ readiness.missingIngredients = Cardinality(MissingSet)
        /\ readiness.partialIngredients = Cardinality(PartialSet)
        /\ IF Len(ScoredRecipe.ingredients) = 0
           THEN readiness.readinessScore = 0
           ELSE IsRounded(readiness.readinessScore,
                    50 * (2 * Cardinality(SufficientSet) + Cardinality(PartialSet)),
                    Len(ScoredRecipe.ingredients))

\* C6 witness: three ingredients, one of them partial and two missing, so the
\* score 16.67 is rounded to 17.
C6_Witness ==
    /\ ReadinessDone
    /\ readiness.totalIngredients = 3
    /\ readiness.partialIngredients = 1
    /\ readiness.missingIngredients = 2
    /\ readiness.availableIngredients = 0
    /\ readiness.readinessScore = 17

AllSufficient ==
    \A i \in 1..Len(readiness.ingredientDetails) :
        readiness.ingredientDetails[i].isSufficient

AllMissing ==
    \A i \in 1..Len(readiness.ingredientDetails) :
        readiness.ingredientDetails[i].available = Zero

\* C7 as stated: for every recipe the score is 100 if and only if every
\* ingredient is sufficient.
C7_FullScoreIffAllSufficient ==
    ReadinessDone => (readiness.readinessScore = 100 <=> AllSufficient)

\* C7 amended: for every recipe with at least one and fewer than 100
\* ingredients the score is 100 if and only if every ingredient is sufficient.
C7_FullScoreIffAllSufficientNonEmpty ==
    (ReadinessDone /\ readiness.totalIngredients \in 1..99) =>
        (readiness.readinessScore = 100 <=> AllSufficient)

\* C7 witness: a recipe of several ingredients, all sufficient, scored 100.
C7_Witness ==
    /\ ReadinessDone
    /\ readiness.totalIngredients >= 2
    /\ AllSufficient
    /\ readiness.readinessScore = 100

\* C8 as stated: the score is 0 whenever the recipe has no ingredients or
\* every ingredient is missing (available = 0).
C8_ZeroScoreWhenAllMissing ==
    (ReadinessDone /\ AllMissing) => readiness.readinessScore = 0

\* C9: the score is an integer between 0 and 100.
C9_ScoreInRange ==
    ReadinessDone => readiness.readinessScore \in 0..100

\* C9 witness: two sufficient ingredients and a partial one, scored 83.
C9_Witness ==
    /\ ReadinessDone
    /\ readiness.availableIngredients = 2
    /\ readiness.partialIngredients = 1
    /\ readiness.readinessScore = 83

----------------------------------------------------------------------------
(* Properties of calculateRecipesReadiness                                 *)

BatchDone == called = "calculateRecipesReadiness"

Reverse(s) == [i \in 1..Len(s) |-> s[Len(s) + 1 - i]]

DistinctIds(rs) ==
    \A i, j \in 1..Len(rs) : rs[i].id = rs[j].id => i = j

\* C10: a batch call over recipes with distinct ids leaves the pantry as it
\* was and returns one entry per recipe; the entry of a recipe is its own
\* readiness against the full pantry, whatever the order of the batch and
\* whichever other recipes are in it.
C10_BatchIsolated ==
    [][ (called = "none" /\ called' = "calculateRecipesReadiness" /\ DistinctIds(recipes)) =>
          /\ pantryItems' = pantryItems
          /\ DOMAIN readinessMap' = {recipes[i].id : i \in 1..Len(recipes)}
          /\ \A i \in 1..Len(recipes) :
                /\ readinessMap'[recipes[i].id]
                   = calculateRecipeReadiness(recipes[i], pantryItems)
                /\ calculateRecipesReadiness(<<recipes[i]>>, pantryItems)
                       .readinessMap[recipes[i].id]
                   = readinessMap'[recipes[i].id]
                /\ calculateRecipesReadiness(RemoveAt(recipes, i), pantryItems).readinessMap
                   = [id \in DOMAIN readinessMap' \ {recipes[i].id} |-> readinessMap'[id]]
          /\ calculateRecipesReadiness(Reverse(recipes), pantryItems).readinessMap
             = readinessMap'
      ]_vars

\* C10 witness: two recipes need the same food, the pantry holds exactly the
\* quantity one of them needs, and both entries report it as sufficient.
C10_Witness ==
    /\ BatchDone
    /\ Len(recipes) = 2
    /\ Len(pantryItems) = 1
    /\ \A i \in 1..2 :
          /\ Len(recipes[i].ingredients) = 1
          /\ recipes[i].ingredients[1].food.id = pantryItems[1].food.id
          /\ recipes[i].ingredients[1].quantity = pantryItems[1].currentSize.size
          /\ readinessMap[recipes[i].id].ingredientDetails[1].available
             = pantryItems[1].currentSize.size
          /\ readinessMap[recipes[i].id].readinessScore = 100

----------------------------------------------------------------------------
(* stores/pantry.ts: expiration status of a pantry item                    *)

MILLISECONDS_PER_DAY == 1000 * 60 * 60 * 24

EXPIRING_SOON_THRESHOLD_DAYS == 7

\* A Date is the one-element tuple of its epoch milliseconds; a null date is
\* Null.  Epoch milliseconds are counted from the start of the model's clock.
Date(t) == <<t>>

getTime(date) == date[1]

\* Math.ceil of the quotient a / b of two integers, b > 0.  Math.ceil gives
\* -0 for a quotient in (-1, 0), and -0 < 0 is false, as for 0.
MathCeil(a, b) == -((-a) \div b)

MathFloor(a, b) == a \div b

calculateStatus_Floor(expirationDate, clock) ==
    IF expirationDate = Null THEN "good"
    ELSE LET daysUntilExpiration ==
                 MathFloor(getTime(expirationDate) - clock, MILLISECONDS_PER_DAY)
         IN  IF daysUntilExpiration < 0 THEN "expired"
             ELSE IF daysUntilExpiration <= EXPIRING_SOON_THRESHOLD_DAYS
                  THEN "expiring-soon"
                  ELSE "good"

\* Variant: the two labels of an unexpired item are exchanged.
calculateStatus_SoonWhenFar(expirationDate, clock) ==
    IF expirationDate = Null THEN "good"
    ELSE LET daysUntilExpiration ==
                 MathCeil(getTime(expirationDate) - clock, MILLISECONDS_PER_DAY)
         IN  IF daysUntilExpiration < 0 THEN "expired"
             ELSE IF daysUntilExpiration <= EXPIRING_SOON_THRESHOLD_DAYS
                  THEN "good"
                  ELSE "expiring-soon"

\* calculateStatus(expirationDate), with the clock it reads made a parameter.
calculateStatus(expirationDate, clock) ==
    IF expirationDate = Null THEN "good"
    ELSE LET daysUntilExpiration ==
                 MathCeil(getTime(expirationDate) - clock, MILLISECONDS_PER_DAY)
         IN  IF daysUntilExpiration < 0 THEN "expired"
             ELSE IF daysUntilExpiration <= EXPIRING_SOON_THRESHOLD_DAYS
                  THEN "expiring-soon"
                  ELSE "good"

\* The store's calculateItemStatus: calculateStatus at the current clock.
calculateItemStatus(expirationDate) == calculateStatus(expirationDate, now)

----------------------------------------------------------------------------
(* Specification of the status classifier under a running clock            *)

MaxClockTicks == 8      \* clock ticks the classifier is observed for

ClockTick == MILLISECONDS_PER_DAY \div 4

\* Expiration dates: none, or any quarter day from the start of the clock to
\* nine days after its end.
StatusDates ==
    {Null} \cup {Date(k * ClockTick) : k \in 0..(MaxClockTicks + 36)}

InitStatus ==
    /\ pantryItems = <<>>
    /\ recipes = <<>>
    /\ called = "none"
    /\ availability = NoResult
    /\ readiness = NoResult
    /\ readinessMap = <<>>
    /\ now = 0
    /\ itemStatus = NoResult
    /\ conversion = NoResult
    /\ calorieResult = NoResult
    /\ similarity = NoResult
    /\ draft = NoResult

\* Time passes.
Tick ==
    /\ now < MaxClockTicks * ClockTick
    /\ now' = now + ClockTick
    /\ UNCHANGED <<pantryItems, recipes, called, availability, readiness,
                   readinessMap, itemStatus, conversion, calorieResult,
                   similarity, draft>>

CalculateItemStatus ==
    /\ \E expirationDate \in StatusDates :
          itemStatus' = [expirationDate |-> expirationDate,
                         at |-> now,
                         status |-> calculateItemStatus(expirationDate)]
    /\ called' = "calculateItemStatus"
    /\ UNCHANGED <<pantryItems, recipes, availability, readiness, readinessMap,
                   now, conversion, calorieResult,
                   similarity, draft>>

NextStatus == Tick \/ CalculateItemStatus

SpecStatus == InitStatus /\ [][NextStatus]_vars

----------------------------------------------------------------------------
(* stores/pantry.ts: usePantryStore                                        *)

\* { ...item, status: calculateStatus(item.expirationDate) }
withStatus(item) ==
    [item EXCEPT !.status = calculateStatus(item.expirationDate, now)]

setItems(items) == [i \in 1..Len(items) |-> withStatus(items[i])]

addItem_KeepingStatus(items, item) == Append(items, item)

addItem(items, item) == Append(items, withStatus(item))

updateItem(items, updatedItem) ==
    [i \in 1..Len(items) |->
        IF items[i].id = updatedItem.id THEN withStatus(updatedItem)
                                        ELSE items[i]]

deleteItem(items, id) == SelectSeq(items, LAMBDA item : item.id # id)

freezeItem_Recomputing(items, id) ==
    [i \in 1..Len(items) |->
        IF items[i].id = id
        THEN withStatus([items[i] EXCEPT !.frozenDate = Date(now)])
        ELSE items[i]]

freezeItem(items, id) ==
    [i \in 1..Len(items) |->
        IF items[i].id = id THEN [items[i] EXCEPT !.frozenDate = Date(now)]
                            ELSE items[i]]

unfreezeItem(items, id) ==
    [i \in 1..Len(items) |->
        IF items[i].id = id THEN [items[i] EXCEPT !.frozenDate = Null]
                            ELSE items[i]]

refreshItemStatuses_ExpiredWhenPast(items) ==
    [i \in 1..Len(items) |->
        [items[i] EXCEPT !.status =
            IF /\ items[i].expirationDate # Null
               /\ getTime(items[i].expirationDate) < now
            THEN "expired"
            ELSE calculateStatus(items[i].expirationDate, now)]]

refreshItemStatuses(items) == [i \in 1..Len(items) |-> withStatus(items[i])]

----------------------------------------------------------------------------
(* Specification of the pantry store under a running clock                 *)

StoreIds == {1, 2}

\* Clock readings of the store: the start, five and a half days and six
\* days later.
StoreClockTimes == {0, 22 * ClockTick, 24 * ClockTick}

\* Expiration dates given to the store: none, five days and eight days after
\* the start of the clock.
StoreDates == {Null, Date(20 * ClockTick), Date(32 * ClockTick)}

\* A PantryItem as a caller passes it: the status is whatever the caller
\* supplies.
MkPantryItem(id, expirationDate, status) ==
    [id |-> id,
     food |-> [id |-> 1, servingUnit |-> "kg"],
     currentSize |-> [size |-> Rat(2), unit |-> "kg"],
     expirationDate |-> expirationDate,
     frozenDate |-> Null,
     status |-> status]

StoreInputs ==
    {MkPantryItem(id, expirationDate, status) :
        id \in StoreIds, expirationDate \in StoreDates,
        status \in {"good", "expired"}}

\* Lists handed to setItems.
StoreInputLists ==
    SeqsUpTo({MkPantryItem(1, Date(20 * ClockTick), "good"),
              MkPantryItem(2, Null, "expired")}, MaxPantry)

InitPantry ==
    /\ pantryItems = <<>>
    /\ recipes = <<>>
    /\ called = "none"
    /\ availability = NoResult
    /\ readiness = NoResult
    /\ readinessMap = <<>>
    /\ now = 0
    /\ itemStatus = NoResult
    /\ conversion = NoResult
    /\ calorieResult = NoResult
    /\ similarity = NoResult
    /\ draft = NoResult

StoreFrame ==
    UNCHANGED <<recipes, called, availability, readiness, readinessMap, now,
                itemStatus, conversion, calorieResult,
                   similarity, draft>>

AdvanceClock ==
    /\ \E t \in StoreClockTimes : t > now /\ now' = t
    /\ UNCHANGED <<pantryItems, recipes, called, availability, readiness,
                   readinessMap, itemStatus, conversion, calorieResult,
                   similarity, draft>>

SetItems ==
    /\ \E items \in StoreInputLists : pantryItems' = setItems(items)
    /\ StoreFrame

AddItem ==
    /\ Len(pantryItems) < MaxPantry
    /\ \E item \in StoreInputs : pantryItems' = addItem(pantryItems, item)
    /\ StoreFrame

UpdateItem ==
    /\ \E updatedItem \in StoreInputs :
          pantryItems' = updateItem(pantryItems, updatedItem)
    /\ StoreFrame

DeleteItem ==
    /\ \E id \in StoreIds : pantryItems' = deleteItem(pantryItems, id)
    /\ StoreFrame

FreezeItem ==
    /\ \E id \in StoreIds : pantryItems' = freezeItem(pantryItems, id)
    /\ StoreFrame

UnfreezeItem ==
    /\ \E id \in StoreIds : pantryItems' = unfreezeItem(pantryItems, id)
    /\ StoreFrame

RefreshItemStatuses ==
    /\ pantryItems' = refreshItemStatuses(pantryItems)
    /\ StoreFrame

NextPantry ==
    \/ AdvanceClock
    \/ SetItems
    \/ AddItem
    \/ UpdateItem
    \/ DeleteItem
    \/ FreezeItem
    \/ UnfreezeItem
    \/ RefreshItemStatuses

SpecPantry == InitPantry /\ [][NextPantry]_vars

----------------------------------------------------------------------------
(* Specification of the recipe list page over the pantry store             *)

\* Variant: the page recomputes every status by the clock before it scores.
recipesReadinessOfStore_ByClock(rs, items) ==
    calculateRecipesReadiness(rs, refreshItemStatuses(items)).readinessMap

\* Pages/Recipes/Index.tsx: the readiness map of the page, computed from the
\* recipes and the items of the pantry store as they are stored.
recipesReadinessOfStore(rs, items) ==
    calculateRecipesReadiness(rs, items).readinessMap

\* One recipe that needs 3 kg of the food the store's items hold 2 kg of.
KitchenRecipes ==
    <<MkRecipe(1, <<MkIngredient([id |-> 1, servingUnit |-> "kg"], Rat(3), "kg")>>)>>

InitKitchen ==
    /\ pantryItems = <<>>
    /\ recipes = KitchenRecipes
    /\ called = "none"
    /\ availability = NoResult
    /\ readiness = NoResult
    /\ readinessMap = <<>>
    /\ now = 0
    /\ itemStatus = NoResult
    /\ conversion = NoResult
    /\ calorieResult = NoResult
    /\ similarity = NoResult
    /\ draft = NoResult

\* The recipe list page renders.
ViewRecipes ==
    /\ readinessMap' = recipesReadinessOfStore(recipes, pantryItems)
    /\ UNCHANGED <<pantryItems, recipes, called, availability, readiness, now,
                   itemStatus, conversion, calorieResult, similarity, draft>>

\* The pantry page mounts: its effect refreshes the statuses.
MountPantry == RefreshItemStatuses

NextKitchen ==
    \/ AdvanceClock
    \/ SetItems
    \/ AddItem
    \/ UpdateItem
    \/ DeleteItem
    \/ MountPantry
    \/ ViewRecipes

SpecKitchen == InitKitchen /\ [][NextKitchen]_vars

----------------------------------------------------------------------------
(* Pages/Recipe: the create screen and the recipe page                     *)

\* The seeded recipes with the fields the screens read.  The two names are
\* written "a" and "b".
seededRecipes ==
    [i \in 1..Len(buildInitialRecipes) |->
        [id |-> buildInitialRecipes[i].id,
         name |-> IF i = 1 THEN <<"a">> ELSE <<"b">>,
         meal |-> IF i = 1 THEN "Lunch" ELSE "Dinner",
         description |-> "seed",
         ingredients |-> buildInitialRecipes[i].ingredients,
         date_published |-> Date(0)]]

\* Array.prototype.splice(index, 1) and filter((_, i) => i !== index), for a
\* 0-based index.
removeAt(list, index) ==
    [i \in 1..(Len(list) - (IF index + 1 \in 1..Len(list) THEN 1 ELSE 0)) |->
        IF i - 1 < index THEN list[i] ELSE list[i + 1]]

\* Store.tsx: the initial state of the form.
emptyForm == [name |-> <<>>, meal |-> "", description |-> "", ingredients |-> <<>>]

isDuplicateName(form, rs) ==
    LET trimmedName == toLowerCase(trim(form.name))
    IN  IF trimmedName = <<>> THEN FALSE
        ELSE \E i \in 1..Len(rs) : toLowerCase(trim(rs[i].name)) = trimmedName

canSave(form, rs) ==
    /\ form.name # <<>>
    /\ form.meal # ""
    /\ form.description # ""
    /\ ~isDuplicateName(form, rs)

canPublish(form, rs) == canSave(form, rs) /\ Len(form.ingredients) > 0

RECURSIVE maxId(_, _)
maxId(rs, k) ==
    IF k = 0 THEN 0
    ELSE LET m == maxId(rs, k - 1) IN IF rs[k].id > m THEN rs[k].id ELSE m

createRecipe(form, rs, publish, clock) ==
    [id |-> IF Len(rs) > 0 THEN maxId(rs, Len(rs)) + 1 ELSE 1,
     name |-> trim(form.name),
     meal |-> form.meal,
     description |-> form.description,
     ingredients |-> form.ingredients,
     date_published |-> IF publish THEN Date(clock) ELSE Null]

\* stores/recipes.ts: updateRecipe
updateRecipe(rs, updatedRecipe) ==
    [i \in 1..Len(rs) |-> IF rs[i].id = updatedRecipe.id THEN updatedRecipe ELSE rs[i]]

\* The recipe page's handleSave: ingredients without a food or without a
\* number of calories are dropped, nothing else is looked at.
sanitizedRecipe(editedRecipe) ==
    LET keep(ing) == /\ "food" \in DOMAIN ing
                     /\ "calories" \in DOMAIN ing
                     /\ ing.calories # NaN
    IN  [editedRecipe EXCEPT !.ingredients = SelectSeq(editedRecipe.ingredients, keep)]

----------------------------------------------------------------------------
(* Specification of the recipe screens                                     *)

\* What the user types into the form: no name, a new name, and the name of
\* the first seeded recipe in capitals with a trailing blank.
FormNames == {<<>>, <<"c">>, <<"A", " ">>}

FormMeals == {"", "Lunch"}

FormDescriptions == {"", "d"}

\* The ingredient the form adds: a slice of ham.
FormIngredient ==
    [food |-> hamFood, quantity |-> Rat(1), calories |-> Rat(75),
     servingUnit |-> "slice"]

\* The recipe the recipe page was opened with.
RecipeOfPage == CHOOSE r \in {recipes[i] : i \in 1..Len(recipes)} : r.id = draft.recipeId

RecipePage(recipe) ==
    [page |-> "Recipe", recipeId |-> recipe.id, editMode |-> FALSE,
     editedRecipe |-> recipe]

OnStore == draft.page = "Store"

OnRecipe == draft.page = "Recipe"

InitScreens ==
    /\ pantryItems = <<>>
    /\ recipes = seededRecipes
    /\ called = "none"
    /\ availability = NoResult
    /\ readiness = NoResult
    /\ readinessMap = <<>>
    /\ now = 0
    /\ itemStatus = NoResult
    /\ conversion = NoResult
    /\ calorieResult = NoResult
    /\ similarity = NoResult
    /\ draft = [page |-> "Recipes"]

ScreensFrame ==
    UNCHANGED <<pantryItems, called, availability, readiness, readinessMap,
                now, itemStatus, conversion, calorieResult, similarity>>

\* The create screen mounts.
OpenStore ==
    /\ draft' = [page |-> "Store", recipe |-> emptyForm]
    /\ UNCHANGED recipes
    /\ ScreensFrame

\* The three fields of the details tab.
ChangeDetails ==
    /\ OnStore
    /\ \E name \in FormNames, meal \in FormMeals, description \in FormDescriptions :
          draft' = [draft EXCEPT !.recipe.name = name, !.recipe.meal = meal,
                                 !.recipe.description = description]
    /\ UNCHANGED recipes
    /\ ScreensFrame

HandleAddIngredient ==
    /\ OnStore
    /\ Len(draft.recipe.ingredients) < MaxIngredients
    /\ draft' = [draft EXCEPT !.recipe.ingredients = Append(@, FormIngredient)]
    /\ UNCHANGED recipes
    /\ ScreensFrame

HandleRemoveIngredient ==
    /\ OnStore
    /\ \E index \in 0..(MaxIngredients - 1) :
          draft' = [draft EXCEPT !.recipe.ingredients = removeAt(@, index)]
    /\ UNCHANGED recipes
    /\ ScreensFrame

HandleSaveRecipe ==
    /\ OnStore
    /\ canSave(draft.recipe, recipes)
    /\ LET newRecipe == createRecipe(draft.recipe, recipes, FALSE, now)
       IN  /\ recipes' = Append(recipes, newRecipe)
           /\ draft' = RecipePage(newRecipe)
    /\ ScreensFrame

HandlePublishRecipe ==
    /\ OnStore
    /\ canPublish(draft.recipe, recipes)
    /\ LET newRecipe == createRecipe(draft.recipe, recipes, TRUE, now)
       IN  /\ recipes' = Append(recipes, newRecipe)
           /\ draft' = RecipePage(newRecipe)
    /\ ScreensFrame

\* The recipe page mounts for a recipe of the list.
OpenRecipe ==
    /\ \E i \in 1..Len(recipes) : draft' = RecipePage(recipes[i])
    /\ UNCHANGED recipes
    /\ ScreensFrame

StartEdit ==
    /\ OnRecipe
    /\ ~draft.editMode
    /\ draft' = [draft EXCEPT !.editMode = TRUE]
    /\ UNCHANGED recipes
    /\ ScreensFrame

RemoveIngredient ==
    /\ OnRecipe
    /\ draft.editMode
    /\ \E index \in 0..(Len(draft.editedRecipe.ingredients) - 1) :
          draft' = [draft EXCEPT !.editedRecipe.ingredients = removeAt(@, index)]
    /\ UNCHANGED recipes
    /\ ScreensFrame

HandleSave ==
    /\ OnRecipe
    /\ draft.editMode
    /\ recipes' = updateRecipe(recipes, sanitizedRecipe(draft.editedRecipe))
    /\ draft' = [draft EXCEPT !.editMode = FALSE]
    /\ ScreensFrame

HandleCancel ==
    /\ OnRecipe
    /\ draft.editMode
    /\ draft' = [draft EXCEPT !.editedRecipe = RecipeOfPage, !.editMode = FALSE]
    /\ UNCHANGED recipes
    /\ ScreensFrame

\* The Publish button is shown out of edit mode for an unpublished recipe
\* and is disabled while the displayed recipe has no ingredients.
PublishRecipe ==
    /\ OnRecipe
    /\ ~draft.editMode
    /\ RecipeOfPage.date_published = Null
    /\ Len(RecipeOfPage.ingredients) # 0
    /\ LET updatedRecipe == [draft.editedRecipe EXCEPT !.date_published = Date(now)]
       IN  /\ recipes' = updateRecipe(recipes, updatedRecipe)
           /\ draft' = [draft EXCEPT !.editedRecipe = updatedRecipe]
    /\ ScreensFrame

UnpublishRecipe ==
    /\ OnRecipe
    /\ ~draft.editMode
    /\ RecipeOfPage.date_published # Null
    /\ LET updatedRecipe == [draft.editedRecipe EXCEPT !.date_published = Null]
       IN  /\ recipes' = updateRecipe(recipes, updatedRecipe)
           /\ draft' = [draft EXCEPT !.editedRecipe = updatedRecipe]
    /\ ScreensFrame

NextScreens ==
    \/ OpenStore
    \/ ChangeDetails
    \/ HandleAddIngredient
    \/ HandleRemoveIngredient
    \/ HandleSaveRecipe
    \/ HandlePublishRecipe
    \/ OpenRecipe
    \/ StartEdit
    \/ RemoveIngredient
    \/ HandleSave
    \/ HandleCancel
    \/ PublishRecipe
    \/ UnpublishRecipe

SpecScreens == InitScreens /\ [][NextScreens]_vars

----------------------------------------------------------------------------
(* Specification of a growing inventory                                    *)

\* What the items hold: 2 kg, nothing and 2 slices of food 1, 2 kg of food 2.
InventoryStock ==
    {<<[id |-> 1, servingUnit |-> "kg"], Rat(2), "kg">>,
     <<[id |-> 1, servingUnit |-> "kg"], Rat(0), "kg">>,
     <<[id |-> 1, servingUnit |-> "kg"], Rat(2), "slice">>,
     <<[id |-> 2, servingUnit |-> ""], Rat(2), "kg">>}

\* Items handed to addItem, without an expiration date or two days past it.
InventoryInputs ==
    {[id |-> 1, food |-> stock[1],
      currentSize |-> [size |-> stock[2], unit |-> stock[3]],
      expirationDate |-> expirationDate, frozenDate |-> Null, status |-> "good"] :
        stock \in InventoryStock,
        expirationDate \in {Null, Date(0 - 2 * MILLISECONDS_PER_DAY)}}

\* Items already in the store, as addItem stored them when the clock started.
InventoryItems ==
    {[item EXCEPT !.status = calculateStatus(item.expirationDate, 0)] :
        item \in InventoryInputs}

\* Ingredients: 3 kg and the placeholder 0 of food 1, 2000 g of food 2.
InventoryIngredients ==
    {MkIngredient([id |-> 1, servingUnit |-> "kg"], Rat(3), "kg"),
     MkIngredient([id |-> 1, servingUnit |-> "kg"], Rat(0), "kg"),
     MkIngredient([id |-> 2, servingUnit |-> ""], Rat(2000), "g")}

InitInventory ==
    /\ pantryItems \in SeqsUpTo(InventoryItems, MaxPantry - 1)
    /\ recipes \in {<<MkRecipe(1, ings)>> :
                       ings \in SeqsUpTo(InventoryIngredients, MaxIngredients - 1)}
    /\ called = "none"
    /\ availability = NoResult
    /\ readiness = NoResult
    /\ readinessMap = <<>>
    /\ now = 0
    /\ itemStatus = NoResult
    /\ conversion = NoResult
    /\ calorieResult = NoResult
    /\ similarity = NoResult
    /\ draft = NoResult

AddInventoryItem ==
    /\ Len(pantryItems) < MaxPantry
    /\ \E item \in InventoryInputs : pantryItems' = addItem(pantryItems, item)
    /\ StoreFrame

NextInventory == AddInventoryItem

SpecInventory == InitInventory /\ [][NextInventory]_vars

----------------------------------------------------------------------------
(* Properties of calculateItemStatus                                       *)

StatusDone == called = "calculateItemStatus"

\* Milliseconds from the call to the expiration date of the latest result.
UntilExpiration == getTime(itemStatus.expirationDate) - itemStatus.at

DayCounts == -12..12

StatusOfDays(d) ==
    IF d < 0 THEN "expired"
    ELSE IF d <= 7 THEN "expiring-soon"
         ELSE "good"

\* C11: calculateItemStatus gives good for a null expiration date; for a
\* date it takes d, the least whole number of days (of 86,400,000 ms) that
\* is not less than the time left, and gives expired for d < 0,
\* expiring-soon for 0 <= d <= 7 and good for d > 7; so exactly 7 days ahead
\* is expiring-soon, 8 days ahead is good and exactly 1 day past is expired.
C11_StatusByCeilingOfDays ==
    StatusDone =>
        IF itemStatus.expirationDate = Null
        THEN itemStatus.status = "good"
        ELSE /\ \E d \in DayCounts :
                   /\ (d - 1) * 86400000 < UntilExpiration
                   /\ UntilExpiration <= d * 86400000
                   /\ itemStatus.status = StatusOfDays(d)
             /\ (UntilExpiration = 7 * 86400000
                    => itemStatus.status = "expiring-soon")
             /\ (UntilExpiration = 8 * 86400000 => itemStatus.status = "good")
             /\ (UntilExpiration = -86400000 => itemStatus.status = "expired")

\* A date between seven and eight days ahead is already good.
C11_Witness ==
    /\ StatusDone
    /\ itemStatus.expirationDate # Null
    /\ 7 * 86400000 < UntilExpiration
    /\ UntilExpiration < 8 * 86400000
    /\ itemStatus.status = "good"

----------------------------------------------------------------------------
(* Properties of the pantry store                                          *)

\* The ids and stored statuses of a list of items, in order.
StatusOf(items) == [i \in 1..Len(items) |-> <<items[i].id, items[i].status>>]

\* An item whose stored status is no longer what the classifier gives.
Stale(item) == item.status # calculateStatus(item.expirationDate, now)

\* C12: the stored status of an item changes only through addItem,
\* updateItem, setItems and refreshItemStatuses: a step of the clock, a
\* freezeItem or an unfreezeItem leaves the status of every item as it was,
\* and a deleteItem leaves the status of every remaining item as it was, so
\* a status that has gone stale stays stored.
C12_StatusChangesOnlyByRecomputing ==
    [][/\ (AdvanceClock \/ FreezeItem \/ UnfreezeItem)
              => StatusOf(pantryItems') = StatusOf(pantryItems)
       /\ \A id \in StoreIds :
              (pantryItems' = deleteItem(pantryItems, id) /\ StoreFrame)
                  => StatusOf(pantryItems')
                         = SelectSeq(StatusOf(pantryItems),
                                     LAMBDA p : p[1] # id)
       /\ StatusOf(pantryItems') # StatusOf(pantryItems)
              => \/ SetItems \/ AddItem \/ UpdateItem
                 \/ DeleteItem \/ RefreshItemStatuses
      ]_vars

\* An item was frozen after its date had passed by a day and still carries
\* the status it was stored with.
C12_Witness ==
    \E i \in 1..Len(pantryItems) :
        /\ pantryItems[i].frozenDate = Date(now)
        /\ pantryItems[i].status = "expiring-soon"
        /\ calculateStatus(pantryItems[i].expirationDate, now) = "expired"

\* The items that a step of addItem, updateItem or refreshItemStatuses
\* affects, each as the pair of its expiration date and of the status the
\* step stores for it.
AffectedByAdd ==
    {<<item.expirationDate, pantryItems'[Len(pantryItems')].status>> :
        item \in {input \in StoreInputs :
                     /\ pantryItems' = addItem(pantryItems, input)
                     /\ StoreFrame}}

AffectedByUpdate ==
    UNION {{<<item.expirationDate, pantryItems'[i].status>> :
               i \in {j \in 1..Len(pantryItems) : pantryItems[j].id = item.id}} :
           item \in {input \in StoreInputs :
                        /\ pantryItems' = updateItem(pantryItems, input)
                        /\ StoreFrame}}

AffectedByRefresh ==
    IF RefreshItemStatuses
    THEN {<<pantryItems[i].expirationDate, pantryItems'[i].status>> :
             i \in 1..Len(pantryItems)}
    ELSE {}

Affected == AffectedByAdd \cup AffectedByUpdate \cup AffectedByRefresh

\* C13: right after addItem, updateItem of an existing id, setItems and
\* refreshItemStatuses the stored status of every affected item is
\* calculateItemStatus of its expiration date at the current clock, whatever
\* status the caller supplied; refreshItemStatuses changes no other field
\* and keeps the order and the ids of the items.
C13_RecomputedOnWrite ==
    [][/\ \A stored \in Affected : stored[2] = calculateItemStatus(stored[1])
       /\ \A items \in StoreInputLists :
              (pantryItems' = setItems(items) /\ StoreFrame)
                  => /\ Len(pantryItems') = Len(items)
                     /\ \A i \in 1..Len(items) :
                            pantryItems'[i].status
                                = calculateItemStatus(items[i].expirationDate)
       /\ RefreshItemStatuses
              => /\ Len(pantryItems') = Len(pantryItems)
                 /\ \A i \in 1..Len(pantryItems) :
                        pantryItems'[i]
                            = [pantryItems[i] EXCEPT
                                  !.status = pantryItems'[i].status]
      ]_vars

\* An item dated eight days after the start is stored as expiring-soon: its
\* status was computed after the clock had advanced.
C13_Witness ==
    \E i \in 1..Len(pantryItems) :
        /\ pantryItems[i].expirationDate = Date(32 * ClockTick)
        /\ pantryItems[i].status = "expiring-soon"
        /\ ~Stale(pantryItems[i])

Past(expirationDate) ==
    expirationDate # Null /\ getTime(expirationDate) < now

PastByADay(expirationDate) ==
    expirationDate # Null /\ getTime(expirationDate) + 86400000 <= now

\* C14 as stated: for an item whose expiration date lies in the past, the
\* status stored by the next addItem, updateItem or refreshItemStatuses is
\* expired.
C14_PastDateStoredAsExpired ==
    [][\A stored \in Affected :
           Past(stored[1]) => stored[2] = "expired"]_vars

\* C14: the status stored by addItem, updateItem or refreshItemStatuses is
\* expired exactly when the expiration date lies at least one full day in
\* the past; an item added 5 days before its date is stored as
\* expiring-soon, keeps that status while the clock passes the date, and is
\* stored as expired by a refreshItemStatuses that runs a day or more after
\* the date.
C14_PastByADayStoredAsExpired ==
    [][/\ \A stored \in Affected :
              /\ stored[2] = "expired" <=> PastByADay(stored[1])
              /\ (/\ stored[1] # Null
                  /\ getTime(stored[1]) - now = 5 * 86400000)
                     => stored[2] = "expiring-soon"
       /\ AdvanceClock => StatusOf(pantryItems') = StatusOf(pantryItems)
      ]_vars

\* At the end of the clock an item dated a day earlier is stored as expired.
C14_Witness ==
    /\ now = 24 * ClockTick
    /\ \E i \in 1..Len(pantryItems) :
           /\ pantryItems[i].expirationDate = Date(20 * ClockTick)
           /\ pantryItems[i].status = "expired"

----------------------------------------------------------------------------
(* Properties of canConvert and convertUnit                                *)

CanConvertDone == called = "canConvert"

ConvertDone == called = "convertUnit"

BothMass(a, b) == a \in MASS_UNITS /\ b \in MASS_UNITS

BothVolume(a, b) == a \in VOLUME_UNITS /\ b \in VOLUME_UNITS

\* The fixed factor of a mass unit (grams) or a volume unit (millilitres).
FactorOf(unit) ==
    IF unit \in MASS_UNITS THEN MASS_TO_GRAMS[unit] ELSE VOLUME_TO_ML[unit]

\* C15: canConvert(a, b) is true exactly when a and b are both mass units or
\* both volume units; it gives the same for (b, a), and false as soon as
\* one unit is custom or unknown, canConvert(u, u) for such a u included.
C15_CanConvertWithinMassOrVolume ==
    CanConvertDone =>
        LET a == conversion.fromUnit
            b == conversion.toUnit
        IN  /\ conversion.canConvert <=> (BothMass(a, b) \/ BothVolume(a, b))
            /\ conversion.canConvert = conversion.reverse
            /\ (a \notin MASS_UNITS \cup VOLUME_UNITS
                \/ b \notin MASS_UNITS \cup VOLUME_UNITS)
                   => ~conversion.canConvert

\* A custom unit is not convertible to itself.
C15_Witness ==
    /\ CanConvertDone
    /\ conversion.fromUnit = "slice"
    /\ conversion.toUnit = "slice"
    /\ ~conversion.canConvert

\* C16: convertUnit(value, from, to) is null exactly when canConvert(from,
\* to) is false and otherwise value * factor(from) / factor(to); it gives a
\* result for every input, and convertUnit(500, "g", "kg") is 0.5.
C16_ConvertByFactorsOrNull ==
    ConvertDone =>
        LET a == conversion.fromUnit
            b == conversion.toUnit
        IN  /\ conversion.result = Null <=> ~canConvert(a, b)
            /\ conversion.result # Null
                   => /\ IsFinite(conversion.result)
                      /\ RatMul(conversion.result, FactorOf(b))
                             = RatMul(conversion.value, FactorOf(a))
            /\ (conversion.value = Rat(500) /\ a = "g" /\ b = "kg")
                   => conversion.result = <<1, 2>>

C16_Witness ==
    /\ ConvertDone
    /\ conversion.value = Rat(500)
    /\ conversion.fromUnit = "g"
    /\ conversion.toUnit = "kg"
    /\ conversion.result = <<1, 2>>

\* C17: for two units of the same category other than custom, converting a
\* value from the one to the other and the result back gives the value.
C17_RoundTrip ==
    (ConvertDone /\ canConvert(conversion.fromUnit, conversion.toUnit))
        => conversion.back = conversion.value

\* One and a half teaspoons to cups and back.
C17_Witness ==
    /\ ConvertDone
    /\ conversion.value = <<3, 2>>
    /\ conversion.fromUnit = "tsp"
    /\ conversion.toUnit = "cup"
    /\ conversion.result # conversion.value
    /\ conversion.back = <<3, 2>>

----------------------------------------------------------------------------
(* Properties of calculateCalories                                         *)

CaloriesDone == called = "calculateCalories"

\* C18: when the target unit is the base serving unit, custom units
\* included, and the base serving size is positive, calculateCalories is
\* (baseCalories / baseServingSize) * targetAmount: twice the amount gives
\* twice the calories, and 150 calories per 2 slices give 300 for 4 slices.
C18_SameUnitRatio ==
    (/\ CaloriesDone
     /\ calorieResult.targetUnit = calorieResult.baseServingUnit
     /\ RatLess(Zero, calorieResult.baseServingSize))
        => /\ calorieResult.calories # Null
           /\ IsFinite(calorieResult.calories)
           /\ RatMul(calorieResult.calories, calorieResult.baseServingSize)
                  = RatMul(calorieResult.baseCalories, calorieResult.targetAmount)
           /\ calorieResult.doubled = RatMul(Rat(2), calorieResult.calories)
           /\ (/\ calorieResult.baseCalories = Rat(150)
               /\ calorieResult.baseServingSize = Rat(2)
               /\ calorieResult.targetAmount = Rat(4))
                  => calorieResult.calories = Rat(300)

C18_Witness ==
    /\ CaloriesDone
    /\ calorieResult.baseCalories = Rat(150)
    /\ calorieResult.baseServingSize = Rat(2)
    /\ calorieResult.baseServingUnit = "slice"
    /\ calorieResult.targetAmount = Rat(4)
    /\ calorieResult.targetUnit = "slice"
    /\ calorieResult.calories = Rat(300)
    /\ calorieResult.doubled = Rat(600)

\* C19: when the target unit differs from the base serving unit,
\* calculateCalories is null if the target unit cannot be converted to the
\* base unit, and otherwise (baseCalories / baseServingSize) times the
\* target amount converted to the base unit; a failed conversion never
\* yields 0 or any other number.
C19_OtherUnitConvertedOrNull ==
    (CaloriesDone /\ calorieResult.targetUnit # calorieResult.baseServingUnit)
        => LET base == calorieResult.baseServingUnit
               target == calorieResult.targetUnit
               convertible == BothMass(target, base) \/ BothVolume(target, base)
           IN  /\ ~convertible => calorieResult.calories = Null
               /\ convertible
                      => /\ calorieResult.calories # Null
                         /\ calorieResult.calories
                                = RatMul(RatDiv(calorieResult.baseCalories,
                                                calorieResult.baseServingSize),
                                         convertUnit(calorieResult.targetAmount,
                                                     target, base))
                         /\ RatLess(Zero, calorieResult.baseServingSize)
                                => RatMul(RatMul(calorieResult.calories,
                                                 calorieResult.baseServingSize),
                                          FactorOf(base))
                                       = RatMul(RatMul(calorieResult.baseCalories,
                                                       calorieResult.targetAmount),
                                                FactorOf(target))

\* 52 calories per 100 g, asked for 3/2 slices: no number.
C19_Witness ==
    /\ CaloriesDone
    /\ calorieResult.baseCalories = Rat(52)
    /\ calorieResult.baseServingSize = Rat(100)
    /\ calorieResult.baseServingUnit = "g"
    /\ calorieResult.targetAmount = <<3, 2>>
    /\ calorieResult.targetUnit = "slice"
    /\ calorieResult.calories = Null

----------------------------------------------------------------------------
(* Properties of the recipe store                                          *)

\* The calorie calculation of a change of unit returns null: the new unit is
\* not the ingredient's unit and cannot be converted to it.
CalculationIsNull(ingredient, newUnit) ==
    calculateCalories(ingredient.food.calories, ingredient.quantity,
                      baseServingUnitOf(ingredient), ingredient.quantity,
                      newUnit) = Null

\* C20: when updateIngredientServingUnit(recipeId, index, newUnit) is called
\* with a unit for which the calorie calculation returns null, the
\* ingredient keeps its calories, quantity and food and gets the new unit,
\* and every other ingredient and every other recipe stay as they were.
C20_CaloriesKeptWhenCalculationIsNull ==
    [][\A recipeId \in RecipeIds, ingredientId \in IngredientIds,
          newUnit \in NewUnits :
          (/\ recipes' = updateIngredientServingUnit(recipes, recipeId,
                                                     ingredientId, newUnit)
           /\ RecipesFrame)
              => /\ Len(recipes') = Len(recipes)
                 /\ \A r \in 1..Len(recipes) :
                        IF /\ recipes[r].id = recipeId
                           /\ ingredientId + 1 \in 1..Len(recipes[r].ingredients)
                           /\ CalculationIsNull(
                                  recipes[r].ingredients[ingredientId + 1], newUnit)
                        THEN recipes'[r] =
                                 [recipes[r] EXCEPT
                                     !.ingredients[ingredientId + 1].servingUnit
                                         = newUnit]
                        ELSE recipes[r].id # recipeId => recipes'[r] = recipes[r]
      ]_vars

\* The ingredients that a step of updateIngredientQuantity or
\* updateIngredientServingUnit recomputes, as they are before the step.
RecomputedIngredients ==
    UNION {{recipes[r].ingredients[target[2] + 1] :
               r \in {k \in 1..Len(recipes) :
                         /\ recipes[k].id = target[1]
                         /\ target[2] + 1 \in 1..Len(recipes[k].ingredients)}} :
           target \in {t \in RecipeIds \X IngredientIds :
                          /\ RecipesFrame
                          /\ \/ \E newQuantity \in NewQuantities :
                                   recipes' = updateIngredientQuantity(
                                                  recipes, t[1], t[2], newQuantity)
                             \/ \E newUnit \in NewUnits :
                                   recipes' = updateIngredientServingUnit(
                                                  recipes, t[1], t[2], newUnit)}}

\* C21: in every sequence of updateIngredientQuantity and
\* updateIngredientServingUnit, a quantity set to the placeholder 0 and then
\* to another value included, the base serving size handed to
\* calculateCalories is strictly positive.
C21_BaseServingSizePositive ==
    [][\A ingredient \in RecomputedIngredients :
           RatLess(Zero, baseServingSizeOf(ingredient))]_vars

\* The value of the Calorie Calculator for the ingredient's food, for the
\* ingredient's quantity in the unit newUnit.
CalculatorValue(ingredient, newUnit) ==
    calculateCalories(ingredient.food.calories, ingredient.food.servingSize,
                      ingredient.food.servingUnit, ingredient.quantity, newUnit)

\* C27 as stated: after updateIngredientServingUnit(recipeId, index, newUnit)
\* with a unit that is the food's servingUnit or convertible to it, the
\* calories stored for the ingredient are the Calorie Calculator's value for
\* the food, the ingredient's quantity and the new unit.
C27_CaloriesAreCalculatorValue ==
    [][\A recipeId \in RecipeIds, ingredientId \in IngredientIds,
          newUnit \in NewUnits :
          (/\ recipes' = updateIngredientServingUnit(recipes, recipeId,
                                                     ingredientId, newUnit)
           /\ RecipesFrame)
              => \A r \in 1..Len(recipes) :
                     (/\ recipes[r].id = recipeId
                      /\ ingredientId + 1 \in 1..Len(recipes[r].ingredients)
                      /\ CalculatorValue(recipes[r].ingredients[ingredientId + 1],
                                         newUnit) # Null)
                         => recipes'[r].ingredients[ingredientId + 1].calories
                               = CalculatorValue(
                                     recipes[r].ingredients[ingredientId + 1],
                                     newUnit)
       ]_vars

----------------------------------------------------------------------------
(* Properties of calculateJaccardSimilarity                                *)

JaccardDone == called = "calculateJaccardSimilarity"

\* The ingredient that a written name stands for.
MeantBy(name) ==
    CASE name = <<"a">> -> "a"
      [] name = <<"A", " ">> -> "a"
      [] name = <<" ", "B">> -> "b"
      [] name = <<"c">> -> "c"
      [] name = <<"d">> -> "d"

MeantSet(names) == {MeantBy(names[i]) : i \in 1..Len(names)}

\* C22: calculateJaccardSimilarity(A, B) is 0 whenever one of the lists
\* gives an empty set, both empty included, and otherwise the size of the
\* intersection over the size of the union of the two sets of names, where
\* names that differ only in case or surrounding whitespace are the same
\* element; three names against two of them give 2/3.
C22_JaccardOfNormalizedSets ==
    JaccardDone =>
        LET A == MeantSet(similarity.ingredientsA)
            B == MeantSet(similarity.ingredientsB)
        IN  /\ (A = {} \/ B = {}) => similarity.similarity = Zero
            /\ (A # {} /\ B # {})
                   => /\ similarity.similarity[2] # 0
                      /\ similarity.similarity[1] * Cardinality(A \cup B)
                             = similarity.similarity[2] * Cardinality(A \cap B)
            /\ (Cardinality(A) = 3 /\ Cardinality(B) = 2 /\ B \subseteq A)
                   => similarity.similarity = <<2, 3>>

\* Three names against two of them, one written in another case.
C22_Witness ==
    /\ JaccardDone
    /\ similarity.ingredientsA = <<<<"a">>, <<"c">>, <<"d">>>>
    /\ similarity.ingredientsB = <<<<"A", " ">>, <<"c">>>>
    /\ similarity.similarity = <<2, 3>>

\* C23: calculateJaccardSimilarity(A, B) = calculateJaccardSimilarity(B, A)
\* for all lists, and calculateJaccardSimilarity(A, A) is 1 for every
\* non-empty A and 0 for the empty list.
C23_SymmetricAndReflexive ==
    JaccardDone =>
        /\ similarity.similarity = similarity.swapped
        /\ similarity.self = IF similarity.ingredientsA = <<>> THEN Zero ELSE Rat(1)

\* Two different lists that overlap in part.
C23_Witness ==
    /\ JaccardDone
    /\ Len(similarity.ingredientsA) = 1
    /\ Len(similarity.ingredientsB) = 3
    /\ similarity.similarity = <<1, 3>>
    /\ similarity.swapped = <<1, 3>>
    /\ similarity.self = Rat(1)

----------------------------------------------------------------------------
(* Properties of the similar-recipe suggestion                             *)

SimilarDone == called = "similarRecipe"

\* The similarity of the draft to the i-th existing recipe.
SimilarityTo(i) ==
    calculateJaccardSimilarity(foodNames(draft.ingredients),
                               foodNames(recipes[i].ingredients))

\* The existing recipes that reach the threshold of 0.30.
Candidates == {i \in 1..Len(recipes) : RatLeq(<<3, 10>>, SimilarityTo(i))}

\* The candidates that no recipe exceeds.
BestCandidates ==
    {i \in Candidates : \A j \in Candidates : RatLeq(SimilarityTo(j), SimilarityTo(i))}

----------------------------------------------------------------------------
(* Properties of the readiness counts                                      *)

\* C25 as stated: for every recipe and pantry, ingredients of quantity 0 and
\* pantry items in incompatible units included, the counts of available,
\* partial and missing ingredients add up to the number of ingredients, and
\* no ingredient is counted both as available and as missing.
C25_CountsPartitionIngredients ==
    ReadinessDone =>
        /\ readiness.availableIngredients + readiness.partialIngredients
              + readiness.missingIngredients = readiness.totalIngredients
        /\ \A i \in 1..Len(readiness.ingredientDetails) :
              ~ (/\ readiness.ingredientDetails[i].isSufficient
                 /\ readiness.ingredientDetails[i].available = Zero)

----------------------------------------------------------------------------
(* Properties of the recipe list page over the pantry store                *)

\* The items whose stored status is not 'expired'.
StoredUnexpired(items) == {i \in 1..Len(items) : items[i].status # "expired"}

\* What the stored statuses alone say the page shows: every item holds 2 kg,
\* the recipe needs 3 kg.
ShownByStatus(items) ==
    LET n == Cardinality(StoredUnexpired(items))
    IN  [available |-> Rat(2 * n),
         readinessScore |-> IF n = 0 THEN 0 ELSE IF n = 1 THEN 50 ELSE 100]

\* The items of this id were counted, are still in the store and are all
\* stored as expired after the step.
StopsContributing(id) ==
    /\ \E i \in StoredUnexpired(pantryItems) : pantryItems[i].id = id
    /\ \E j \in 1..Len(pantryItems') : pantryItems'[j].id = id
    /\ \A j \in StoredUnexpired(pantryItems') : pantryItems'[j].id # id

\* The step is a write of updateItem, setItems or refreshItemStatuses.
WrittenAnew ==
    \/ pantryItems' = refreshItemStatuses(pantryItems)
    \/ \E updatedItem \in StoreInputs : pantryItems' = updateItem(pantryItems, updatedItem)
    \/ \E items \in StoreInputLists : pantryItems' = setItems(items)

\* C26: what the recipe list page shows follows the stored status only, not
\* the expirationDate or the clock: every item whose stored status is not
\* 'expired' contributes its currentSize to `available` and to the score,
\* also after the clock has passed its expirationDate, and an item that stays
\* in the store stops contributing only in a step of updateItem, setItems or
\* refreshItemStatuses that stores 'expired' for it.
C26_AvailabilityFollowsStoredStatus ==
    [][ /\ ViewRecipes =>
              /\ readinessMap'[1].ingredientDetails[1].available
                    = ShownByStatus(pantryItems).available
              /\ readinessMap'[1].readinessScore
                    = ShownByStatus(pantryItems).readinessScore
        /\ \A id \in StoreIds : StopsContributing(id) => WrittenAnew ]_vars

\* C26 witness: the only item is a day past its expirationDate by the clock,
\* is still stored as not expired, and the page shows its 2 kg.
C26_Witness ==
    /\ Len(pantryItems) = 1
    /\ pantryItems[1].status # "expired"
    /\ calculateStatus(pantryItems[1].expirationDate, now) = "expired"
    /\ readinessMap # <<>>
    /\ readinessMap[1].ingredientDetails[1].available = Rat(2)
    /\ readinessMap[1].readinessScore = 50

----------------------------------------------------------------------------
(* Properties of the recipe screens                                        *)

\* C28 as stated: in every state reachable through the recipe screens
\* (create with Save or Publish, publish and unpublish on the recipe page,
\* edit with ingredient removal and Save) every recipe with a non-null
\* date_published has at least one ingredient.
C28_PublishedHasIngredients ==
    \A i \in 1..Len(recipes) :
        recipes[i].date_published # Null => Len(recipes[i].ingredients) >= 1

----------------------------------------------------------------------------
(* Properties of readiness under a growing inventory                       *)

\* C29: adding a pantry item of non-negative currentSize, of any food, unit
\* and status, never decreases the `available` of an ingredient, never turns
\* a sufficient ingredient insufficient and never decreases the
\* readinessScore of a recipe.
C29_ReadinessMonotoneInInventory ==
    [][AddInventoryItem =>
          \A r \in 1..Len(recipes) :
              LET before == calculateRecipeReadiness(recipes[r], pantryItems)
                  after  == calculateRecipeReadiness(recipes[r], pantryItems')
              IN  /\ before.readinessScore <= after.readinessScore
                  /\ \A i \in 1..Len(before.ingredientDetails) :
                        /\ RatLeq(before.ingredientDetails[i].available,
                                  after.ingredientDetails[i].available)
                        /\ before.ingredientDetails[i].isSufficient
                              => after.ingredientDetails[i].isSufficient
       ]_vars

\* C29 witness: the second item was added to the first and lifts the only
\* ingredient from partial to sufficient, the score from 50 to 100.
C29_Witness ==
    /\ Len(pantryItems) = 2
    /\ Len(recipes) = 1
    /\ Len(recipes[1].ingredients) = 1
    /\ calculateRecipeReadiness(recipes[1], SubSeq(pantryItems, 1, 1)).readinessScore = 50
    /\ calculateRecipeReadiness(recipes[1], pantryItems).readinessScore = 100

----------------------------------------------------------------------------
(* Properties of calculateItemStatus over time                             *)

\* The place of a status in the order good -> expiring-soon -> expired.
StatusRank(status) ==
    IF status = "good" THEN 0 ELSE IF status = "expiring-soon" THEN 1 ELSE 2

\* C30: for a fixed non-null expirationDate the value of calculateItemStatus
\* only moves forward in the order good -> expiring-soon -> expired as the
\* clock advances, never backward; for a null expirationDate it is 'good' at
\* every time.
C30_StatusOnlyMovesForward ==
    [][CalculateItemStatus =>
          /\ itemStatus'.expirationDate = Null => itemStatus'.status = "good"
          /\ (/\ called = "calculateItemStatus"
              /\ itemStatus.expirationDate = itemStatus'.expirationDate)
                 => /\ itemStatus.at <= itemStatus'.at
                    /\ StatusRank(itemStatus.status) <= StatusRank(itemStatus'.status)
       ]_vars

\* C30 witness: an item that was expiring soon when the clock started is
\* found expired later.
C30_Witness ==
    /\ StatusDone
    /\ itemStatus.expirationDate # Null
    /\ itemStatus.at > 0
    /\ calculateStatus(itemStatus.expirationDate, 0) = "expiring-soon"
    /\ itemStatus.status = "expired"

====
